---- MODULE Spec2Model ----
(***************************************************************************)
(* A model of fuse-eth-fs: the FUSE facade EthFS (filesystem.py) over the  *)
(* per-store ContractManager (contract_manager.py), with the remote        *)
(* FileSystem contract as the record store.                                *)
(*                                                                         *)
(* Paths are sequences of segments: "D/x" is <<"D","x">> and "" is <<>>,   *)
(* so that s.startswith(p + "/") is "p is a proper segment prefix of s".   *)
(* Slots are 1-based positions in a store's record sequence.               *)
(* One chain id is configured; its default store is DefaultAddress.        *)
(***************************************************************************)
EXTENDS Integers, Sequences, FiniteSets, TLC

VARIABLES
    store,              \* remote: store address -> sequence of records
    signer,             \* EthFS.transaction_account (NoSigner when unset)
    entry_cache,        \* EthFS.entry_cache: ordered sequence of [key, info]
    path_to_slot,       \* per store handle: ContractManager.path_to_slot
    slot_to_path,       \* per store handle: ContractManager.slot_to_path
    cm_cache,           \* EthFS._contract_manager_cache (set of addresses)
    last,               \* the last facade call: arguments, result, remote calls
    nOps,               \* number of facade calls made so far
    threads             \* per FUSE worker thread: the callback it is inside of

vars == <<store, signer, entry_cache, path_to_slot, slot_to_path, cm_cache,
          last, nOps, threads>>

-----------------------------------------------------------------------------
(* Bounds of the model *)

MaxOps == 2
MaxInit == 1
MaxSegs == 5

-----------------------------------------------------------------------------
(* Program constants *)

ENTRY_TYPE_FILE == 0
ENTRY_TYPE_DIRECTORY == 1
ENTRY_TYPE_LINK == 2

ChainId == 1337
DefaultAddress == "S1"
RedirectAddress == "S2"
FurtherAddress == "S3"
\* an address for which no store handle can be instantiated
BrokenAddress == "S4"
Stores == {DefaultAddress, RedirectAddress, FurtherAddress, BrokenAddress}

\* contract_addresses[chain_id] as the configuration spells it; the records
\* of a store spell an address in its checksummed form
ConfiguredAddress == "s1"
ZeroAddress == "0x0"

NoSigner == "none"
NoArg == -1
None == "None"
NoSlot == 0

\* Addresses as the contract returns them (checksummed) and as a path may
\* spell them (any case).
ContractOwners == {"A", "B"}
PathAccounts == {"a", "B"}

Lower(acct) ==
    CASE acct = "A" -> "a" [] acct = "B" -> "b"
      [] acct = "S1" -> "s1" [] acct = "S2" -> "s2"
      [] acct = "S3" -> "s3" [] acct = "S4" -> "s4"
      [] OTHER -> acct

ToChecksum(acct) ==
    IF acct \in {"a", "A"} THEN "A" ELSE IF acct \in {"b", "B"} THEN "B" ELSE acct

RelPaths == { <<"D">>, <<"x">>, <<"D", "x">> }

ABC == <<97, 98, 99>>
XY == <<120, 121>>


-----------------------------------------------------------------------------
(* Generic helpers *)

MapPut(m, k, v) == [x \in (DOMAIN m) \cup {k} |-> IF x = k THEN v ELSE m[x]]

MapDel(m, k) == [x \in (DOMAIN m) \ {k} |-> m[x]]

Min(S) == CHOOSE x \in S : \A y \in S : x <= y

Zeros(n) == [i \in 1..n |-> 0]

\* p + "/" is a prefix of s
StartsWithDir(s, p) == Len(s) > Len(p) /\ SubSeq(s, 1, Len(p)) = p

-----------------------------------------------------------------------------
(* The remote FileSystem contract (one instance per store address).        *)
(* Its Solidity source is not part of the Python sources; it is modelled   *)
(* from the Remote Store Client boundary of the specification.             *)

Record(kind, owner, name, body, target) ==
    [kind |-> kind, owner |-> owner, name |-> name, body |-> body,
     exists |-> TRUE, target |-> target]

\* listLiveIndices(): the indices of the live records, in ascending order
getEntries(recs) == { i \in 1..Len(recs) : recs[i].exists }

\* createRecord(name, body, offset): the store assigns the next index
createFile(recs, sender, name, body) ==
    Append(recs, Record(ENTRY_TYPE_FILE, ToChecksum(sender), name, body, ZeroAddress))

\* createDirectory(name, redirectTarget)
createDirectory(recs, sender, name, target) ==
    Append(recs, Record(ENTRY_TYPE_DIRECTORY, ToChecksum(sender), name, <<>>, target))

\* writeRecord(index, offset, body): splice, zero-padding a gap
SpliceBody(old, offset, body) ==
    LET head == IF offset <= Len(old) THEN SubSeq(old, 1, offset)
                ELSE old \o Zeros(offset - Len(old))
        tail == IF offset + Len(body) < Len(old)
                THEN SubSeq(old, offset + Len(body) + 1, Len(old)) ELSE <<>>
    IN head \o body \o tail

writeFile(recs, slot, offset, body) ==
    [recs EXCEPT ![slot].body = SpliceBody(@, offset, body)]

\* deleteRecord(index)
deleteEntry(recs, slot) == [recs EXCEPT ![slot].exists = FALSE]

\* readRecord(index, offset, length)
readFile(recs, slot, offset, length) ==
    LET b == recs[slot].body
        hi == IF offset + length < Len(b) THEN offset + length ELSE Len(b)
    IN IF offset >= Len(b) THEN <<>> ELSE SubSeq(b, offset + 1, hi)

\* write access is owner-checked at the store layer
Authorized(recs, slot, sender) == recs[slot].owner = ToChecksum(sender)

\* waitForCommit outcomes: the transaction commits, is mined but fails
\* (status 0, no state change), or the submission itself raises.
TxOutcomes == {"committed", "failed", "raised"}

\* an unauthorized write never commits: the store rejects it at submission
Effective(outcome, authorized) ==
    IF outcome = "committed" /\ ~authorized THEN "raised" ELSE outcome

-----------------------------------------------------------------------------
(* ContractManager: one per store handle.  The local state threaded        *)
(* through the operators is L = [ec, p2s, s2p, cmc]; an operator that may  *)
(* change it returns the new local state in the field l of its result.     *)

Local == [ec |-> entry_cache, p2s |-> path_to_slot, s2p |-> slot_to_path,
          cmc |-> cm_cache]

\* _send_transaction: signed locally with the transaction account when there
\* is one, else handed to the node unsigned
Tx(fn, to, name, slot, sender, outcome) ==
    [fn |-> fn, to |-> to, name |-> name, slot |-> slot, sender |-> sender,
     signed |-> signer # NoSigner, outcome |-> outcome]

\* self.path_to_slot[key] = slot; self.slot_to_path[(account.lower(), slot)] = path
IndexPut(L, s, account, path, slot) ==
    [L EXCEPT !.p2s[s] = MapPut(@, <<Lower(account), path>>, slot),
              !.s2p[s] = MapPut(@, <<Lower(account), slot>>, path)]

\* if key in self.path_to_slot: del ...; if (account.lower(), slot) in ...: del ...
IndexDel(L, s, account, path, slot) ==
    [L EXCEPT !.p2s[s] = MapDel(@, <<Lower(account), path>>),
              !.s2p[s] = MapDel(@, <<Lower(account), slot>>)]

\* the scan of _find_slot_by_path: the live slots that match
ScanMatches(recs, account, path, any_owner) ==
    { i \in getEntries(recs) :
        /\ recs[i].exists
        /\ (any_owner \/ Lower(recs[i].owner) = Lower(account))
        /\ recs[i].kind \in {ENTRY_TYPE_FILE, ENTRY_TYPE_DIRECTORY}
        /\ recs[i].name = path }

\* ... and the first of them, in the order of getEntries
FirstMatch(recs, account, path, any_owner) ==
    IF ScanMatches(recs, account, path, any_owner) = {} THEN NoSlot
    ELSE Min(ScanMatches(recs, account, path, any_owner))

FoundSlot(L, s, account, path, slot) ==
    [v |-> slot,
     l |-> IF slot = NoSlot THEN L ELSE IndexPut(L, s, account, path, slot)]

find_slot_by_path(L, st, s, account, path, any_owner) ==
    FoundSlot(L, s, account, path, FirstMatch(st[s], account, path, any_owner))

\* _get_storage_slot: the local mapping when it has the key, else the scan
\* (ValueError, here NoSlot, when the scan finds nothing)
get_storage_slot(L, st, s, account, path) ==
    IF <<Lower(account), path>> \in DOMAIN L.p2s[s]
    THEN [v |-> L.p2s[s][<<Lower(account), path>>], l |-> L]
    ELSE find_slot_by_path(L, st, s, account, path, FALSE)

NoRecord == [kind |-> NoArg, owner |-> None, name |-> <<>>, body |-> <<>>,
             exists |-> FALSE, target |-> ZeroAddress]

EntryOf(recs, f) ==
    [found |-> f.v # NoSlot,
     v |-> IF f.v = NoSlot THEN NoRecord ELSE recs[f.v], slot |-> f.v, l |-> f.l]

\* get_entry: the record at the resolved slot, or None (found = FALSE)
get_entry(L, st, s, account, path, any_owner) ==
    EntryOf(st[s], find_slot_by_path(L, st, s, account, path, any_owner))

\* a sender taken from the path whatever the configuration is
FromPath(account) == account

\* self.transaction_account.address if self.transaction_account else account
FromAddress(account) == IF signer # NoSigner THEN signer ELSE account

\* after wait_for_transaction_receipt: diff the live slots, index the new one
\* a creation that submits once more when the submission raised
CreatedAgain(L, st, st2, s, path, account, tx) ==
    IF tx.outcome = "raised"
    THEN [ok |-> FALSE, l |-> L, st |-> st, txs |-> <<tx, tx>>]
    ELSE [ok |-> TRUE,
          l |-> IF getEntries(st2[s]) \ getEntries(st[s]) = {} THEN L
                ELSE IndexPut(L, s, account, path,
                              CHOOSE n \in getEntries(st2[s]) \ getEntries(st[s]) : TRUE),
          st |-> st2, txs |-> <<tx, tx>>]

Created(L, st, st2, s, path, account, tx) ==
    IF tx.outcome = "raised"
    THEN [ok |-> FALSE, l |-> L, st |-> st, txs |-> <<tx>>]
    ELSE [ok |-> TRUE,
          l |-> IF getEntries(st2[s]) \ getEntries(st[s]) = {} THEN L
                ELSE IndexPut(L, s, account, path,
                              CHOOSE n \in getEntries(st2[s]) \ getEntries(st[s]) : TRUE),
          st |-> st2, txs |-> <<tx>>]

create_file(L, st, s, path, body, account, outcome) ==
    Created(L, st,
            IF outcome = "committed"
            THEN [st EXCEPT ![s] = createFile(@, FromAddress(account), path, body)]
            ELSE st,
            s, path, account,
            Tx("createFile", s, path, NoSlot, FromAddress(account), outcome))

create_directory(L, st, s, path, account, outcome) ==
    Created(L, st,
            IF outcome = "committed"
            THEN [st EXCEPT ![s] = createDirectory(@, FromAddress(account), path,
                                                   ZeroAddress)]
            ELSE st,
            s, path, account,
            Tx("createDirectory", s, path, NoSlot, FromAddress(account), outcome))

Deleted(st, s, path, account, f, eff) ==
    IF f.v = NoSlot THEN [ok |-> FALSE, l |-> f.l, st |-> st, txs |-> <<>>]
    ELSE IF eff = "raised"
    THEN [ok |-> FALSE, l |-> f.l, st |-> st,
          txs |-> << Tx("deleteEntry", s, path, f.v, FromAddress(account), eff) >>]
    ELSE [ok |-> TRUE,
          l |-> IndexDel(f.l, s, account, path, f.v),
          st |-> IF eff = "committed" THEN [st EXCEPT ![s] = deleteEntry(@, f.v)]
                 ELSE st,
          txs |-> << Tx("deleteEntry", s, path, f.v, FromAddress(account), eff) >>]

DeleteFound(st, s, path, account, outcome, f) ==
    Deleted(st, s, path, account, f,
            Effective(outcome,
                      f.v # NoSlot /\ Authorized(st[s], f.v, FromAddress(account))))

delete_entry(L, st, s, path, account, outcome) ==
    DeleteFound(st, s, path, account, outcome,
                find_slot_by_path(L, st, s, account, path, FALSE))

\* updateRecord(index, body, offset): the body from the offset on is replaced
updateFile(recs, slot, body, offset) ==
    [recs EXCEPT ![slot].body = SubSeq(@, 1, Min({offset, Len(@)})) \o body]

Updated(st, s, path, body, account, f, eff) ==
    IF f.v = NoSlot THEN [ok |-> FALSE, l |-> f.l, st |-> st, txs |-> <<>>]
    ELSE IF eff = "raised"
    THEN [ok |-> FALSE, l |-> f.l, st |-> st,
          txs |-> << Tx("updateFile", s, path, f.v, FromAddress(account), eff) >>]
    ELSE [ok |-> TRUE, l |-> f.l,
          st |-> IF eff = "committed"
                 THEN [st EXCEPT ![s] = updateFile(@, f.v, body, 0)] ELSE st,
          txs |-> << Tx("updateFile", s, path, f.v, FromAddress(account), eff) >>]

UpdateFound(st, s, path, body, account, outcome, f) ==
    Updated(st, s, path, body, account, f,
            Effective(outcome,
                      f.v # NoSlot /\ Authorized(st[s], f.v, FromAddress(account))))

\* update_file: not called by the facade, offered by the store handle
update_file(L, st, s, path, body, account, outcome) ==
    UpdateFound(st, s, path, body, account, outcome,
                find_slot_by_path(L, st, s, account, path, FALSE))

\* a write_file that sends the payload for offset 0 whatever the offset is
WrittenAtZero(st, s, path, body, offset, account, outcome, f, eff) ==
    IF f.v = NoSlot THEN create_file(f.l, st, s, path, body, account, outcome)
    ELSE IF eff = "raised"
    THEN [ok |-> FALSE, l |-> f.l, st |-> st,
          txs |-> << Tx("writeFile", s, path, f.v, FromAddress(account), eff) >>]
    ELSE [ok |-> TRUE, l |-> f.l,
          st |-> IF eff = "committed"
                 THEN [st EXCEPT ![s] = writeFile(@, f.v, 0, body)] ELSE st,
          txs |-> << Tx("writeFile", s, path, f.v, FromAddress(account), eff) >>]

Written(st, s, path, body, offset, account, outcome, f, eff) ==
    IF f.v = NoSlot THEN create_file(f.l, st, s, path, body, account, outcome)
    ELSE IF eff = "raised"
    THEN [ok |-> FALSE, l |-> f.l, st |-> st,
          txs |-> << Tx("writeFile", s, path, f.v, FromAddress(account), eff) >>]
    ELSE [ok |-> TRUE, l |-> f.l,
          st |-> IF eff = "committed"
                 THEN [st EXCEPT ![s] = writeFile(@, f.v, offset, body)] ELSE st,
          txs |-> << Tx("writeFile", s, path, f.v, FromAddress(account), eff) >>]

WriteFound(st, s, path, body, offset, account, outcome, f) ==
    Written(st, s, path, body, offset, account, outcome, f,
            Effective(outcome,
                      f.v # NoSlot /\ Authorized(st[s], f.v, FromAddress(account))))

write_file(L, st, s, path, body, offset, account, outcome) ==
    WriteFound(st, s, path, body, offset, account, outcome,
               find_slot_by_path(L, st, s, account, path, FALSE))

ReadFound(recs, offset, length, f) ==
    [found |-> f.v # NoSlot,
     v |-> IF f.v = NoSlot THEN <<>> ELSE readFile(recs, f.v, offset, length),
     l |-> f.l]

\* read_file: world-readable; None (found = FALSE) when no record matches
read_file(L, st, s, path, offset, length, account) ==
    ReadFound(st[s], offset, length,
              find_slot_by_path(L, st, s, account, path, TRUE))

-----------------------------------------------------------------------------
(* EthFS: the Snapshot Cache.  A Python dict keeps insertion order, and    *)
(* the any-owner fallback of _get_entry_info returns the first match in    *)
(* that order, so the cache is a sequence of [key, info] with unique keys. *)

Key(account, path) == <<ChainId, Lower(account), path>>

\* what a timestamp stands for: the one the store keeps with the record, or
\* time.time() at the moment of the call
RecordTime == "timestamp"
ClockTime == "time"

Info(slot, type, owner, size, timestamp, target) ==
    [slot |-> slot, type |-> type, owner |-> owner, size |-> size,
     timestamp |-> timestamp, directory_target |-> target]

NoInfo == Info(NoSlot, NoArg, None, 0, None, None)

CacheHas(ec, key) == \E i \in 1..Len(ec) : ec[i].key = key

CacheGet(ec, key) == ec[CHOOSE i \in 1..Len(ec) : ec[i].key = key].info

CachePut(ec, key, info) ==
    IF CacheHas(ec, key)
    THEN [i \in 1..Len(ec) |-> IF ec[i].key = key THEN [key |-> key, info |-> info]
                               ELSE ec[i]]
    ELSE Append(ec, [key |-> key, info |-> info])

TargetOrNone(t) == IF t # ZeroAddress THEN t ELSE None

RecordInfo(rec, slot) ==
    Info(slot, rec.kind, rec.owner, Len(rec.body), RecordTime,
         TargetOrNone(rec.target))

\* the body of the loop over the slots: fetch the record, cache it by name
RefreshSlot(recs, i, ec) ==
    IF i \in getEntries(recs) /\ recs[i].exists /\ recs[i].name # <<>>
    THEN CachePut(ec, Key(recs[i].owner, recs[i].name), RecordInfo(recs[i], i))
    ELSE ec

RECURSIVE RefreshFrom(_, _, _)
RefreshFrom(recs, i, ec) ==
    IF i > Len(recs) THEN ec
    ELSE RefreshFrom(recs, i + 1, RefreshSlot(recs, i, ec))

\* a refresh that forgets to clear
KeepCache(ec) == ec

\* self.entry_cache.clear()
ClearCache(ec) == <<>>

\* _refresh_cache: clear, then scan the default store of every configured chain
refresh_cache(ec, st) == RefreshFrom(st[DefaultAddress], 1, ClearCache(ec))

-----------------------------------------------------------------------------
(* EthFS: the Store Resolver *)

CachedTarget(L, info) ==
    [hit |-> info.type = ENTRY_TYPE_DIRECTORY /\ info.directory_target # None,
     target |-> info.directory_target, l |-> L]

RemoteTarget(e) ==
    [hit |-> /\ e.found
             /\ e.v.exists
             /\ e.v.kind = ENTRY_TYPE_DIRECTORY
             /\ e.v.target # ZeroAddress,
     target |-> e.v.target, l |-> e.l]

\* one step of the walk: does the directory at p carry a directoryTarget?
\* (from the cache entry under the account's own key, else from the default
\* store by an owner-filtered get_entry)
TargetAt(L, st, account, p) ==
    IF CacheHas(L.ec, Key(account, p))
    THEN CachedTarget(L, CacheGet(L.ec, Key(account, p)))
    ELSE RemoteTarget(get_entry(L, st, DefaultAddress, account, p, FALSE))

\* for i in range(i, 0, -1): the first prefix path[:i] that redirects
RECURSIVE WalkUp(_, _, _, _, _)
WalkStep(st, account, path, i, c) ==
    IF c.hit
    THEN [found |-> TRUE, parent |-> SubSeq(path, 1, i), target |-> c.target,
          l |-> c.l]
    ELSE WalkUp(c.l, st, account, path, i - 1)

WalkUp(L, st, account, path, i) ==
    IF i < 1 THEN [found |-> FALSE, parent |-> <<>>, target |-> None, l |-> L]
    ELSE WalkStep(st, account, path, i, TargetAt(L, st, account, SubSeq(path, 1, i)))

ResolvedBy(w) == [v |-> IF w.found THEN w.target ELSE ConfiguredAddress, l |-> w.l]

ResolveFrom(st, account, path, c) ==
    IF c.hit THEN [v |-> c.target, l |-> c.l]
    ELSE ResolvedBy(WalkUp(c.l, st, account, path, Len(path) - 1))

\* the path itself first, then its ancestors from the nearest up
resolve_contract_address(L, st, account, path) ==
    IF path = <<>> THEN [v |-> ConfiguredAddress, l |-> L]
    ELSE ResolveFrom(st, account, path, TargetAt(L, st, account, path))

\* the path itself included: range(len(path_parts), 0, -1)
get_parent_directory_with_target(L, st, account, path) ==
    IF path = <<>> THEN [found |-> FALSE, parent |-> <<>>, target |-> None, l |-> L]
    ELSE WalkUp(L, st, account, path, Len(path))

\* a rewriting that sends the full path whatever the parent is
RelativeToFull(path, p) == [v |-> path, l |-> p.l]

RelativeTo(path, p) ==
    [v |-> IF p.found THEN SubSeq(path, Len(p.parent) + 1, Len(path)) ELSE path,
     l |-> p.l]

get_relative_path_in_subdirectory(L, st, account, path) ==
    RelativeTo(path, get_parent_directory_with_target(L, st, account, path))

\* a comparison of the addresses as they are spelled
SameSpelling(a, b) == a = b

\* contract_address.lower() == default_address.lower()
SameAddress(a, b) == Lower(a) = Lower(b)

\* ContractManager(w3, contract_address, ...) raises
Instantiable(address) == address # BrokenAddress

\* new_manager = ContractManager(...): a handle with an empty Slot Index
NewManager(L, address) ==
    [L EXCEPT !.cmc = @ \cup {Lower(address)},
              !.p2s[address] = <<>>, !.s2p[address] = <<>>]

\* the default handle for the default address, the cached handle when
\* there is one, else a new handle, else (no handle can be made) the
\* default handle
ManagerFor(r) ==
    IF SameAddress(r.v, ConfiguredAddress) THEN [v |-> DefaultAddress, l |-> r.l]
    ELSE IF Lower(r.v) \in r.l.cmc THEN [v |-> r.v, l |-> r.l]
    ELSE IF Instantiable(r.v) THEN [v |-> r.v, l |-> NewManager(r.l, r.v)]
    ELSE [v |-> DefaultAddress, l |-> r.l]

\* the store handle for the path; a handle for a redirect target is created
\* on first use and kept in _contract_manager_cache
get_contract_manager(L, st, account, path) ==
    ManagerFor(resolve_contract_address(L, st, account, path))

\* the two steps every file operation starts with: the handle, then the path
\* to send to it
Routed(s, rel) == [cm |-> s, rel |-> rel.v, l |-> rel.l]

RouteVia(st, account, path, cm) ==
    Routed(cm.v, get_relative_path_in_subdirectory(cm.l, st, account, path))

Route(L, st, account, path) ==
    RouteVia(st, account, path, get_contract_manager(L, st, account, path))

-----------------------------------------------------------------------------
(* EthFS: lookup and listing *)

\* a scan that matches the path alone
AnyChainHits(ec, path) ==
    { i \in 1..Len(ec) : ec[i].key[3] = path }

AnyOwnerHits(ec, path) ==
    { i \in 1..Len(ec) : ec[i].key[1] = ChainId /\ ec[i].key[3] = path }

ImplicitDirectory(ec, path) ==
    \E i \in 1..Len(ec) : ec[i].key[1] = ChainId /\ StartsWithDir(ec[i].key[3], path)

\* self.entry_cache[(chain_id, owner_lower, path)] = info
Patched(path, rec, f) ==
    [found |-> TRUE, v |-> RecordInfo(rec, f.v),
     l |-> [f.l EXCEPT !.ec = CachePut(@, Key(rec.owner, path), RecordInfo(rec, f.v))]]

EntryInfoFrom(st, account, path, s, rel, e) ==
    IF e.found /\ e.v.exists
    THEN Patched(path, e.v, find_slot_by_path(e.l, st, s, account, rel, TRUE))
    ELSE [found |-> FALSE, v |-> NoInfo, l |-> e.l]

EntryInfoAt(st, account, path, s, rel) ==
    EntryInfoFrom(st, account, path, s, rel.v,
                  get_entry(rel.l, st, s, account, rel.v, TRUE))

EntryInfoVia(st, account, path, cm) ==
    IF path # <<>> /\ ImplicitDirectory(cm.l.ec, path)
    THEN [found |-> TRUE,
          v |-> Info(NoSlot, ENTRY_TYPE_DIRECTORY, account, 0, ClockTime, None),
          l |-> cm.l]
    ELSE EntryInfoAt(st, account, path, cm.v,
                     get_relative_path_in_subdirectory(cm.l, st, account, path))

\* the entry info, or None (found = FALSE)
get_entry_info(L, st, account, path) ==
    IF CacheHas(L.ec, Key(account, path))
    THEN [found |-> TRUE, v |-> CacheGet(L.ec, Key(account, path)), l |-> L]
    ELSE IF AnyOwnerHits(L.ec, path) # {}
    THEN [found |-> TRUE, v |-> L.ec[Min(AnyOwnerHits(L.ec, path))].info, l |-> L]
    ELSE EntryInfoVia(st, account, path, get_contract_manager(L, st, account, path))

\* the first path component of every live, named record of a store
TopLevelNames(recs) ==
    { recs[i].name[1] : i \in { j \in getEntries(recs) :
                                  recs[j].exists /\ recs[j].name # <<>> } }

\* the next component after rel + "/" of every live record below rel
ChildNames(recs, rel) ==
    { recs[i].name[Len(rel) + 1] :
        i \in { j \in getEntries(recs) :
                  recs[j].exists /\ StartsWithDir(recs[j].name, rel) } }

\* with path = "" every cached path contributes its first component (the
\* cached path "" itself contributes "")
CacheChildNames(ec, path) ==
    IF path = <<>>
    THEN { IF ec[i].key[3] = <<>> THEN "" ELSE ec[i].key[3][1] :
             i \in { j \in 1..Len(ec) : ec[j].key[1] = ChainId } }
    ELSE { ec[i].key[3][Len(path) + 1] :
             i \in { j \in 1..Len(ec) :
                       ec[j].key[1] = ChainId /\ StartsWithDir(ec[j].key[3], path) } }

ListTarget(st, cm) == [v |-> TopLevelNames(st[cm.v]), l |-> cm.l]

ListRelative(recs, rel) ==
    [v |-> IF rel.v = <<>> THEN TopLevelNames(recs) ELSE ChildNames(recs, rel.v),
     l |-> rel.l]

ListResolved(st, account, path, s, ra) ==
    IF Lower(ra.v) # Lower(ConfiguredAddress)
    THEN ListRelative(st[s], get_relative_path_in_subdirectory(ra.l, st, account, path))
    ELSE [v |-> CacheChildNames(ra.l.ec, path), l |-> ra.l]

ListVia(st, account, path, cm) ==
    ListResolved(st, account, path, cm.v,
                 resolve_contract_address(cm.l, st, account, path))

ListFrom(st, account, path, e) ==
    IF e.found /\ e.v.type = ENTRY_TYPE_DIRECTORY /\ e.v.directory_target # None
    THEN ListTarget(st, get_contract_manager(e.l, st, account, path))
    ELSE ListVia(st, account, path, get_contract_manager(e.l, st, account, path))

list_directory(L, st, account, path) ==
    ListFrom(st, account, path, get_entry_info(L, st, account, path))

-----------------------------------------------------------------------------
(* EthFS: path parsing.  Here a path is the string the kernel hands over,  *)
(* a sequence of characters; an optional value is <<>> (None) or <<v>>.    *)

Nothing == <<>>

Some(v) == <<v>>

\* str.split('/'): the pieces between the separators, empty ones included
RECURSIVE SplitFrom(_, _, _)
SplitFrom(str, i, piece) ==
    IF i > Len(str) THEN << piece >>
    ELSE IF str[i] = "/" THEN << piece >> \o SplitFrom(str, i + 1, <<>>)
    ELSE SplitFrom(str, i + 1, Append(piece, str[i]))

Split(str) == SplitFrom(str, 1, <<>>)

\* a split that keeps the empty pieces
AllParts(path) == Split(path)

NonEmpty(piece) == piece # <<>>

\* [p for p in path.split('/') if p]
Parts(path) == SelectSeq(Split(path), NonEmpty)

\* '/'.join(parts)
RECURSIVE JoinSlash(_)
JoinSlash(parts) ==
    IF parts = <<>> THEN <<>>
    ELSE IF Len(parts) = 1 THEN parts[1]
    ELSE parts[1] \o <<"/">> \o JoinSlash(Tail(parts))

DigitValue(c) ==
    CASE c = "0" -> 0 [] c = "1" -> 1 [] c = "2" -> 2 [] c = "3" -> 3
      [] c = "4" -> 4 [] c = "5" -> 5 [] c = "6" -> 6 [] c = "7" -> 7
      [] c = "8" -> 8 [] c = "9" -> 9 [] OTHER -> NoArg

IsDigits(str) == str # <<>> /\ \A i \in 1..Len(str) : DigitValue(str[i]) # NoArg

RECURSIVE DigitsValue(_, _)
DigitsValue(str, acc) ==
    IF str = <<>> THEN acc
    ELSE DigitsValue(Tail(str), 10 * acc + DigitValue(Head(str)))

\* int(s) for a string of digits with an optional sign; ValueError otherwise
IntOf(str) ==
    IF IsDigits(str) THEN Some(DigitsValue(str, 0))
    ELSE IF str # <<>> /\ str[1] = "-" /\ IsDigits(Tail(str))
    THEN Some(0 - DigitsValue(Tail(str), 0))
    ELSE IF str # <<>> /\ str[1] = "+" /\ IsDigits(Tail(str))
    THEN Some(DigitsValue(Tail(str), 0))
    ELSE Nothing

Parsed(chain_id, account, relative_path) ==
    [chain_id |-> chain_id, account |-> account, relative_path |-> relative_path]

ParseParts(parts) ==
    IF Len(parts) = 0 THEN Parsed(Nothing, Nothing, Nothing)
    ELSE IF IntOf(parts[1]) = Nothing THEN Parsed(Nothing, Nothing, Nothing)
    ELSE IF Len(parts) = 1 THEN Parsed(IntOf(parts[1]), Nothing, Nothing)
    ELSE IF Len(parts) = 2 THEN Parsed(IntOf(parts[1]), Some(parts[2]), Nothing)
    ELSE Parsed(IntOf(parts[1]), Some(parts[2]),
                Some(JoinSlash(SubSeq(parts, 3, Len(parts)))))

\* _parse_path: (chain_id, account_address, relative_path)
parse_path(path) == ParseParts(Parts(path))

-----------------------------------------------------------------------------
(* EthFS: the facade operations.  Each action is one FUSE callback on      *)
(* /<ChainId>/<account>/<path>, run to completion.                         *)

WriteData == {XY}
WriteOffsets == {0, 5}
TruncateLengths == {2}
ReadSizes == {2}

Call(op, account, path, data, offset, ret, out, txs, cm, rel, refreshed) ==
    [op |-> op, account |-> account, path |-> path, data |-> data,
     offset |-> offset, ret |-> ret, out |-> out, txs |-> txs, cm |-> cm,
     rel |-> rel, refreshed |-> refreshed]

\* what a mutating callback leaves behind: r is the ContractManager result
Commit(op, account, path, data, offset, cm, rel, r, okret) ==
    /\ store' = r.st
    /\ entry_cache' = IF r.ok THEN refresh_cache(r.l.ec, r.st) ELSE r.l.ec
    /\ path_to_slot' = r.l.p2s
    /\ slot_to_path' = r.l.s2p
    /\ cm_cache' = r.l.cmc
    /\ last' = Call(op, account, path, data, offset,
                    IF r.ok THEN okret ELSE "EIO", None, r.txs, cm, rel, r.ok)
    /\ nOps' = nOps + 1
    /\ UNCHANGED <<signer, threads>>

\* what a callback that sends no transaction leaves behind
Observe(op, account, path, data, offset, ret, out, cm, rel, L) ==
    /\ entry_cache' = L.ec
    /\ path_to_slot' = L.p2s
    /\ slot_to_path' = L.s2p
    /\ cm_cache' = L.cmc
    /\ last' = Call(op, account, path, data, offset, ret, out, <<>>, cm, rel, FALSE)
    /\ nOps' = nOps + 1
    /\ UNCHANGED <<store, signer, threads>>

CreateAt(account, path, outcome, rt) ==
    Commit("create", account, path, <<>>, NoArg, rt.cm, rt.rel,
           create_file(rt.l, store, rt.cm, rt.rel, <<>>, account, outcome), "ok")

create(account, path, outcome) ==
    /\ nOps < MaxOps
    /\ CreateAt(account, path, outcome, Route(Local, store, account, path))

MkdirAt(account, path, outcome, rt) ==
    Commit("mkdir", account, path, <<>>, NoArg, rt.cm, rt.rel,
           create_directory(rt.l, store, rt.cm, rt.rel, account, outcome), "ok")

mkdir(account, path, outcome) ==
    /\ nOps < MaxOps
    /\ MkdirAt(account, path, outcome, Route(Local, store, account, path))

UnlinkAt(account, path, outcome, rt) ==
    Commit("unlink", account, path, <<>>, NoArg, rt.cm, rt.rel,
           delete_entry(rt.l, store, rt.cm, rt.rel, account, outcome), "ok")

unlink(account, path, outcome) ==
    /\ nOps < MaxOps
    /\ UnlinkAt(account, path, outcome, Route(Local, store, account, path))

\* the directory record is deleted by its full path at the resolved handle
RmdirListed(account, path, outcome, s, entries) ==
    IF entries.v # {}
    THEN /\ outcome = "committed"
         /\ Observe("rmdir", account, path, <<>>, NoArg, "ENOTEMPTY", None,
                    s, path, entries.l)
    ELSE Commit("rmdir", account, path, <<>>, NoArg, s, path,
                delete_entry(entries.l, store, s, path, account, outcome), "ok")

RmdirVia(account, path, outcome, cm) ==
    RmdirListed(account, path, outcome, cm.v,
                list_directory(cm.l, store, account, path))

rmdir(account, path, outcome) ==
    /\ nOps < MaxOps
    /\ RmdirVia(account, path, outcome,
                get_contract_manager(Local, store, account, path))

WriteAt(account, path, data, offset, outcome, rt) ==
    Commit("write", account, path, data, offset, rt.cm, rt.rel,
           write_file(rt.l, store, rt.cm, rt.rel, data, offset, account, outcome),
           "ok")

write(account, path, data, offset, outcome) ==
    /\ nOps < MaxOps
    /\ WriteAt(account, path, data, offset, outcome,
               Route(Local, store, account, path))

\* current_data[:length], or current_data extended with zero bytes
TruncatedData(current_data, length) ==
    IF length < Len(current_data) THEN SubSeq(current_data, 1, length)
    ELSE current_data \o Zeros(length - Len(current_data))

TruncateRead(account, path, length, outcome, s, rel, cur) ==
    Commit("truncate", account, path, <<>>, length, s, rel,
           write_file(cur.l, store, s, rel,
                      TruncatedData(IF cur.found THEN cur.v ELSE <<>>, length),
                      0, account, outcome),
           "ok")

TruncateAt(account, path, length, outcome, rt) ==
    TruncateRead(account, path, length, outcome, rt.cm, rt.rel,
                 read_file(rt.l, store, rt.cm, rt.rel, 0, 0, account))

truncate(account, path, length, outcome) ==
    /\ nOps < MaxOps
    /\ TruncateAt(account, path, length, outcome,
                  Route(Local, store, account, path))

ReadResult(rt, d) ==
    [v |-> IF d.found THEN d.v ELSE <<>>, cm |-> rt.cm, rel |-> rt.rel, l |-> d.l]

ReadAt(st, account, size, offset, rt) ==
    ReadResult(rt, read_file(rt.l, st, rt.cm, rt.rel, offset, size, account))

\* read: the bytes returned (b"" when no record matches)
ReadOut(L, st, account, path, size, offset) ==
    ReadAt(st, account, size, offset, Route(L, st, account, path))

ReadDone(account, path, offset, r) ==
    Observe("read", account, path, <<>>, offset, "ok", r.v, r.cm, r.rel, r.l)

read(account, path, size, offset) ==
    /\ nOps < MaxOps
    /\ ReadDone(account, path, offset,
                ReadOut(Local, store, account, path, size, offset))

\* getattr below the owner level: st_mode, st_size and st_mtime, or ENOENT
Attr(kind, size, mtime) == [kind |-> kind, size |-> size, mtime |-> mtime]

AttrOf(path, e) ==
    [v |-> IF ~e.found
           THEN (IF \E i \in 1..Len(e.l.ec) :
                        /\ e.l.ec[i].key[1] = ChainId
                        /\ StartsWithDir(e.l.ec[i].key[3], path)
                 THEN Attr("dir", 0, ClockTime) ELSE Attr("ENOENT", 0, None))
           ELSE IF e.v.type = ENTRY_TYPE_DIRECTORY
           THEN Attr("dir", 0, e.v.timestamp)
           ELSE Attr("file", e.v.size, e.v.timestamp),
     l |-> e.l]

GetattrOut(L, st, account, path) ==
    AttrOf(path, get_entry_info(L, st, account, path))

GetattrDone(account, path, r) ==
    Observe("getattr", account, path, <<>>, NoArg,
            IF r.v.kind = "ENOENT" THEN "ENOENT" ELSE "ok", r.v, None, path, r.l)

getattr(account, path) ==
    /\ nOps < MaxOps
    /\ GetattrDone(account, path, GetattrOut(Local, store, account, path))

ReaddirDone(account, path, r) ==
    Observe("readdir", account, path, <<>>, NoArg, "ok", r.v, None, path, r.l)

\* readdir of an owner directory (path = "") or of a directory below it
readdir(account, path) ==
    /\ nOps < MaxOps
    /\ ReaddirDone(account, path, list_directory(Local, store, account, path))

OpenOf(e) ==
    [v |-> IF ~e.found THEN "ENOENT"
           ELSE IF e.v.type # ENTRY_TYPE_FILE THEN "EISDIR"
           ELSE "ok",
     l |-> e.l]

OpenDone(account, path, r) ==
    Observe("open", account, path, <<>>, NoArg, r.v, None, None, path, r.l)

open(account, path) ==
    /\ nOps < MaxOps
    /\ OpenDone(account, path, OpenOf(get_entry_info(Local, store, account, path)))

\* access below the owner level: 0 when an entry is found, else ENOENT
AccessOf(e) == [v |-> IF e.found THEN "ok" ELSE "ENOENT", l |-> e.l]

AccessDone(account, path, r) ==
    Observe("access", account, path, <<>>, NoArg, r.v, None, None, path, r.l)

access(account, path) ==
    /\ nOps < MaxOps
    /\ AccessDone(account, path, AccessOf(get_entry_info(Local, store, account, path)))

\* a callback that does the work and reports success
Implemented(op, account, path, data) ==
    Observe(op, account, path, data, NoArg, "ok", None, None, <<>>,
            [Local EXCEPT !.ec = refresh_cache(@, store)])

\* raise FuseOSError(errno.ENOSYS), whatever the arguments are
NotImplemented(op, account, path, data) ==
    Observe(op, account, path, data, NoArg, "ENOSYS", None, None, <<>>, Local)

\* rename(old, new): data holds the relative path of new
rename(account, path, new) ==
    /\ nOps < MaxOps
    /\ NotImplemented("rename", account, path, new)

\* symlink(target, name): path is the relative path of name, data the target
symlink(account, path, target) ==
    /\ nOps < MaxOps
    /\ NotImplemented("symlink", account, path, target)

-----------------------------------------------------------------------------
(* Records that other actors created directly at the default store before *)
(* the mount: of any kind, of either owner, with or without a redirect.    *)

Names == RelPaths

OtherRecords ==
    { Record(ENTRY_TYPE_FILE, o, n, b, ZeroAddress) :
        o \in ContractOwners, n \in Names, b \in {ABC} }
    \cup { Record(ENTRY_TYPE_DIRECTORY, o, n, <<>>, t) :
        o \in ContractOwners, n \in Names, t \in {ZeroAddress, RedirectAddress} }
    \cup { Record(ENTRY_TYPE_LINK, o, n, <<>>, ZeroAddress) :
        o \in ContractOwners, n \in Names }

RECURSIVE SeqsUpTo(_, _)
SeqsUpTo(S, n) ==
    IF n = 0 THEN { <<>> }
    ELSE LET shorter == SeqsUpTo(S, n - 1)
         IN shorter \cup { Append(q, r) : q \in shorter, r \in S }

-----------------------------------------------------------------------------
(* The worker threads of the FUSE loop.  The mount passes no option that   *)
(* makes the loop single-threaded and EthFS takes no lock, so a callback   *)
(* runs on any worker while another worker is inside a callback.           *)

Threads == {1, 2}

Idle == [pc |-> "idle", op |-> None, account |-> None, path |-> <<>>,
         cm |-> None, rel |-> <<>>, txs |-> <<>>, todo |-> <<>>, before |-> <<>>]

-----------------------------------------------------------------------------
(* The state after EthFS.__init__: the stores hold what they held at mount *)
(* time and the Snapshot Cache has been built once.                        *)

Init ==
    /\ store \in { [s \in Stores |-> IF s = DefaultAddress THEN c ELSE <<>>] :
                     c \in SeqsUpTo(OtherRecords, MaxInit) }
    /\ signer \in {NoSigner, "A"}
    /\ entry_cache = refresh_cache(<<>>, store)
    /\ path_to_slot = [s \in Stores |-> <<>>]
    /\ slot_to_path = [s \in Stores |-> <<>>]
    /\ cm_cache = {}
    /\ last = Call("init", None, <<>>, <<>>, NoArg, "ok", None, <<>>, None, <<>>, TRUE)
    /\ nOps = 0
    /\ threads = [t \in Threads |-> Idle]

Next ==
    \/ \E account \in PathAccounts, path \in RelPaths, outcome \in TxOutcomes :
         create(account, path, outcome)
    \/ \E account \in PathAccounts, path \in RelPaths, outcome \in TxOutcomes :
         mkdir(account, path, outcome)
    \/ \E account \in PathAccounts, path \in RelPaths, outcome \in TxOutcomes :
         unlink(account, path, outcome)
    \/ \E account \in PathAccounts, path \in RelPaths, outcome \in TxOutcomes :
         rmdir(account, path, outcome)
    \/ \E account \in PathAccounts, path \in RelPaths, outcome \in TxOutcomes,
          data \in WriteData, offset \in WriteOffsets :
         write(account, path, data, offset, outcome)
    \/ \E account \in PathAccounts, path \in RelPaths, outcome \in TxOutcomes,
          length \in TruncateLengths :
         truncate(account, path, length, outcome)
    \/ \E account \in PathAccounts, path \in RelPaths, size \in ReadSizes :
         read(account, path, size, 0)
    \/ \E account \in PathAccounts, path \in RelPaths : getattr(account, path)
    \/ \E account \in PathAccounts, path \in RelPaths \cup {<<>>} :
         readdir(account, path)
    \/ \E account \in PathAccounts, path \in RelPaths : open(account, path)
    \/ \E account \in PathAccounts, path \in RelPaths : access(account, path)
    \/ \E account \in PathAccounts, path \in RelPaths, new \in RelPaths :
         rename(account, path, new)
    \/ \E account \in PathAccounts, path \in RelPaths, target \in RelPaths :
         symlink(account, path, target)

Spec == Init /\ [][Next]_vars

-----------------------------------------------------------------------------
(* Path parsing on its own: the facade is handed a path made of up to      *)
(* MaxSegs pieces, empty pieces (leading, doubled and trailing slashes)    *)
(* included, and parses it.                                                *)

Segments ==
    { <<>>, <<"1">>, <<"1", "3">>, <<"-", "1">>, <<"a">>, <<"1", "a">> }

InitParse ==
    /\ store = [s \in Stores |-> <<>>]
    /\ signer = NoSigner
    /\ entry_cache = refresh_cache(<<>>, store)
    /\ path_to_slot = [s \in Stores |-> <<>>]
    /\ slot_to_path = [s \in Stores |-> <<>>]
    /\ cm_cache = {}
    /\ last = Call("init", None, <<>>, <<>>, NoArg, "ok", None, <<>>, None, <<>>, TRUE)
    /\ nOps = 0
    /\ threads = [t \in Threads |-> Idle]

\* path holds the string, data the pieces it was made of, out the result
parse(pieces) ==
    /\ nOps = 0
    /\ last' = Call("_parse_path", None, JoinSlash(pieces), pieces, NoArg, "ok",
                    parse_path(JoinSlash(pieces)), <<>>, None, <<>>, FALSE)
    /\ nOps' = nOps + 1
    /\ UNCHANGED <<store, signer, entry_cache, path_to_slot, slot_to_path, cm_cache,
                   threads>>

NextParse == \E pieces \in SeqsUpTo(Segments, MaxSegs) : parse(pieces)

SpecParse == InitParse /\ [][NextParse]_vars

-----------------------------------------------------------------------------
(* Callbacks on several worker threads.  A mutating callback is taken step *)
(* by step: resolve the handle and the path, let the handle send the       *)
(* transaction, then _refresh_cache: clear, fetch the live slots, fetch    *)
(* and cache one record per iteration, return.  A worker that is idle may  *)
(* run getattr in between.                                                 *)

ThreadOps == {"create", "unlink"}

Running == { t \in Threads : threads[t].pc # "idle" }

\* the live slots in the order the loop visits them
RECURSIVE SlotsFrom(_, _)
SlotsFrom(recs, i) ==
    IF i > Len(recs) THEN <<>>
    ELSE IF i \in getEntries(recs) THEN <<i>> \o SlotsFrom(recs, i + 1)
    ELSE SlotsFrom(recs, i + 1)

ThreadKeeps(L) ==
    /\ entry_cache' = L.ec
    /\ path_to_slot' = L.p2s
    /\ slot_to_path' = L.s2p
    /\ cm_cache' = L.cmc

ThreadResolved(t, op, account, path, rt) ==
    /\ ThreadKeeps(rt.l)
    /\ threads' = [threads EXCEPT ![t] =
                     [Idle EXCEPT !.pc = "resolved", !.op = op, !.account = account,
                                  !.path = path, !.cm = rt.cm, !.rel = rt.rel]]
    /\ UNCHANGED <<store, signer, last, nOps>>

\* create / unlink up to the call of the store handle
thread_resolve(t, op, account, path) ==
    /\ threads[t].pc = "idle"
    /\ nOps + Cardinality(Running) < MaxOps
    /\ ThreadResolved(t, op, account, path, Route(Local, store, account, path))

ThreadSent(t, r) ==
    /\ store' = r.st
    /\ ThreadKeeps(r.l)
    /\ IF r.ok
       THEN /\ threads' = [threads EXCEPT ![t].pc = "clear", ![t].txs = r.txs]
            /\ UNCHANGED <<last, nOps>>
       ELSE /\ threads' = [threads EXCEPT ![t] = Idle]
            /\ last' = Call(threads[t].op, threads[t].account, threads[t].path, <<>>,
                            NoArg, "EIO", None, r.txs, threads[t].cm, threads[t].rel,
                            FALSE)
            /\ nOps' = nOps + 1
    /\ UNCHANGED signer

\* contract_manager.create_file / delete_entry
thread_transact(t, outcome) ==
    /\ threads[t].pc = "resolved"
    /\ ThreadSent(t,
          IF threads[t].op = "create"
          THEN create_file(Local, store, threads[t].cm, threads[t].rel, <<>>,
                           threads[t].account, outcome)
          ELSE delete_entry(Local, store, threads[t].cm, threads[t].rel,
                            threads[t].account, outcome))

\* self.entry_cache.clear()
refresh_clear(t) ==
    /\ threads[t].pc = "clear"
    /\ entry_cache' = ClearCache(entry_cache)
    /\ threads' = [threads EXCEPT ![t].pc = "scan", ![t].before = entry_cache]
    /\ UNCHANGED <<store, signer, path_to_slot, slot_to_path, cm_cache, last, nOps>>

\* slots = contract.functions.getEntries().call()
refresh_getEntries(t) ==
    /\ threads[t].pc = "scan"
    /\ threads' = [threads EXCEPT ![t].pc = "fill",
                                  ![t].todo = SlotsFrom(store[DefaultAddress], 1)]
    /\ UNCHANGED <<store, signer, entry_cache, path_to_slot, slot_to_path, cm_cache,
                   last, nOps>>

\* one iteration: getEntry(slot).call(), then self.entry_cache[...] = {...}
refresh_getEntry(t) ==
    /\ threads[t].pc = "fill"
    /\ threads[t].todo # <<>>
    /\ entry_cache' = RefreshSlot(store[DefaultAddress], Head(threads[t].todo),
                                  entry_cache)
    /\ threads' = [threads EXCEPT ![t].todo = Tail(@)]
    /\ UNCHANGED <<store, signer, path_to_slot, slot_to_path, cm_cache, last, nOps>>

\* return 0
thread_return(t) ==
    /\ threads[t].pc = "fill"
    /\ threads[t].todo = <<>>
    /\ threads' = [threads EXCEPT ![t] = Idle]
    /\ last' = Call(threads[t].op, threads[t].account, threads[t].path, <<>>, NoArg,
                    "ok", None, threads[t].txs, threads[t].cm, threads[t].rel, TRUE)
    /\ nOps' = nOps + 1
    /\ UNCHANGED <<store, signer, entry_cache, path_to_slot, slot_to_path, cm_cache>>

\* getattr on a worker that is idle
thread_getattr(t, account, path) ==
    /\ threads[t].pc = "idle"
    /\ nOps + Cardinality(Running) < MaxOps
    /\ GetattrDone(account, path, GetattrOut(Local, store, account, path))

NextThreads ==
    \/ \E t \in Threads, op \in ThreadOps, account \in PathAccounts,
          path \in RelPaths : thread_resolve(t, op, account, path)
    \/ \E t \in Threads, outcome \in TxOutcomes : thread_transact(t, outcome)
    \/ \E t \in Threads : refresh_clear(t)
    \/ \E t \in Threads : refresh_getEntries(t)
    \/ \E t \in Threads : refresh_getEntry(t)
    \/ \E t \in Threads : thread_return(t)
    \/ \E t \in Threads, account \in PathAccounts, path \in RelPaths :
          thread_getattr(t, account, path)

SpecThreads == Init /\ [][NextThreads]_vars

-----------------------------------------------------------------------------
(* create_file step by step, on several worker threads and next to other   *)
(* clients of the same store: enumerate the live slots, send createFile    *)
(* and wait for the receipt, enumerate again and index a slot of the       *)
(* difference, refresh and return.  set.pop() takes an arbitrary element   *)
(* of the difference.  A worker keeps the slots it enumerated in before    *)
(* and the slot the store assigned to its record in todo.                  *)

\* existing_slots = set(self.contract.functions.getEntries().call())
create_enumerate(t, account, path) ==
    /\ threads[t].pc = "idle"
    /\ nOps + Cardinality(Running) < MaxOps
    /\ ThreadResolved(t, "create", account, path, Route(Local, store, account, path))

CreateEnumerated(t) ==
    /\ threads' = [threads EXCEPT ![t].pc = "enumerated",
                                  ![t].before = SlotsFrom(store[threads[t].cm], 1)]
    /\ UNCHANGED <<store, signer, entry_cache, path_to_slot, slot_to_path, cm_cache,
                   last, nOps>>

create_getEntries(t) ==
    /\ threads[t].pc = "resolved"
    /\ threads[t].op = "create"
    /\ CreateEnumerated(t)

CreateSent(t, outcome, tx) ==
    IF outcome = "raised"
    THEN /\ threads' = [threads EXCEPT ![t] = Idle]
         /\ last' = Call("create", threads[t].account, threads[t].path, <<>>, NoArg,
                         "EIO", None, <<tx>>, threads[t].cm, threads[t].rel, FALSE)
         /\ nOps' = nOps + 1
         /\ UNCHANGED store
    ELSE /\ store' = IF outcome = "committed"
                     THEN [store EXCEPT ![threads[t].cm] =
                             createFile(@, tx.sender, threads[t].rel, <<>>)]
                     ELSE store
         /\ threads' = [threads EXCEPT
                          ![t].pc = "sent", ![t].txs = <<tx>>,
                          ![t].todo = IF outcome = "committed"
                                      THEN << Len(store[threads[t].cm]) + 1 >> ELSE <<>>]
         /\ UNCHANGED <<last, nOps>>

\* _send_transaction(createFile(...)); wait_for_transaction_receipt(tx_hash)
create_send(t, outcome) ==
    /\ threads[t].pc = "enumerated"
    /\ CreateSent(t, outcome,
                  Tx("createFile", threads[t].cm, threads[t].rel, NoSlot,
                     FromAddress(threads[t].account), outcome))
    /\ UNCHANGED <<signer, entry_cache, path_to_slot, slot_to_path, cm_cache>>

\* new_slots - existing_slots
NewSlots(t) ==
    getEntries(store[threads[t].cm])
        \ { threads[t].before[i] : i \in 1..Len(threads[t].before) }

CreateIndexed(t, L) ==
    /\ path_to_slot' = L.p2s
    /\ slot_to_path' = L.s2p
    /\ entry_cache' = refresh_cache(entry_cache, store)
    /\ threads' = [threads EXCEPT ![t] = Idle]
    /\ last' = Call("create", threads[t].account, threads[t].path, <<>>, NoArg, "ok",
                    None, threads[t].txs, threads[t].cm, threads[t].rel, TRUE)
    /\ nOps' = nOps + 1
    /\ UNCHANGED <<store, signer, cm_cache>>

\* new_slot = (new_slots - existing_slots).pop() if ... else None; the
\* mapping; return True; then _refresh_cache and return 0
create_index(t) ==
    /\ threads[t].pc = "sent"
    /\ IF NewSlots(t) = {} THEN CreateIndexed(t, Local)
       ELSE \E n \in NewSlots(t) :
              CreateIndexed(t, IndexPut(Local, threads[t].cm, threads[t].account,
                                        threads[t].rel, n))

\* what another client of the store creates meanwhile
OtherCreated == { Record(ENTRY_TYPE_FILE, "B", <<"x">>, ABC, ZeroAddress) }

\* another client creates a record in a store a worker is creating in
other_create(s, rec) ==
    /\ \E t \in Threads : threads[t].pc \in {"enumerated", "sent"} /\ threads[t].cm = s
    /\ Len(store[s]) < MaxInit + MaxOps
    /\ store' = [store EXCEPT ![s] = Append(@, rec)]
    /\ UNCHANGED <<signer, entry_cache, path_to_slot, slot_to_path, cm_cache, last,
                   nOps, threads>>

\* what the default store holds at mount time
CreateMounted ==
    { <<>>,
      << Record(ENTRY_TYPE_FILE, "A", <<"x">>, ABC, ZeroAddress) >>,
      << Record(ENTRY_TYPE_DIRECTORY, "A", <<"D">>, <<>>, RedirectAddress) >> }

InitCreate ==
    /\ store \in { [s \in Stores |-> IF s = DefaultAddress THEN c ELSE <<>>] :
                     c \in CreateMounted }
    /\ signer \in {NoSigner, "A"}
    /\ entry_cache = refresh_cache(<<>>, store)
    /\ path_to_slot = [s \in Stores |-> <<>>]
    /\ slot_to_path = [s \in Stores |-> <<>>]
    /\ cm_cache = {}
    /\ last = Call("init", None, <<>>, <<>>, NoArg, "ok", None, <<>>, None, <<>>, TRUE)
    /\ nOps = 0
    /\ threads = [t \in Threads |-> Idle]

NextCreate ==
    \/ \E t \in Threads, account \in PathAccounts, path \in RelPaths :
          create_enumerate(t, account, path)
    \/ \E t \in Threads : create_getEntries(t)
    \/ \E t \in Threads, outcome \in TxOutcomes : create_send(t, outcome)
    \/ \E t \in Threads : create_index(t)
    \/ \E s \in Stores, rec \in OtherCreated : other_create(s, rec)

SpecCreate == InitCreate /\ [][NextCreate]_vars

-----------------------------------------------------------------------------
(* Redirection in depth.  The default store holds directory records "D"    *)
(* and "D/E", with or without a redirect target; the target store of "D"   *)
(* holds a directory record "E", with or without a redirect target of its  *)
(* own.  All of them are owned by A, and A works on files below them.      *)

NestedPaths == { <<"D", "x">>, <<"D", "E", "x">> }

NestedDefault ==
    { Record(ENTRY_TYPE_DIRECTORY, "A", <<"D">>, <<>>, t) :
        t \in {ZeroAddress, RedirectAddress, DefaultAddress, BrokenAddress} }
    \cup { Record(ENTRY_TYPE_DIRECTORY, "A", <<"D", "E">>, <<>>, t) :
        t \in {ZeroAddress, FurtherAddress} }

NestedTarget ==
    { Record(ENTRY_TYPE_DIRECTORY, "A", <<"E">>, <<>>, t) :
        t \in {ZeroAddress, FurtherAddress} }

InitNested ==
    /\ \E c \in SeqsUpTo(NestedDefault, MaxInit + 1), d \in SeqsUpTo(NestedTarget, MaxInit) :
          store = [s \in Stores |-> IF s = DefaultAddress THEN c
                                    ELSE IF s = RedirectAddress THEN d ELSE <<>>]
    /\ signer \in {NoSigner, "A"}
    /\ entry_cache = refresh_cache(<<>>, store)
    /\ path_to_slot = [s \in Stores |-> <<>>]
    /\ slot_to_path = [s \in Stores |-> <<>>]
    /\ cm_cache = {}
    /\ last = Call("init", None, <<>>, <<>>, NoArg, "ok", None, <<>>, None, <<>>, TRUE)
    /\ nOps = 0
    /\ threads = [t \in Threads |-> Idle]

NextNested ==
    \/ \E path \in NestedPaths, outcome \in TxOutcomes : create("a", path, outcome)
    \/ \E path \in NestedPaths, outcome \in TxOutcomes : unlink("a", path, outcome)
    \/ \E path \in NestedPaths, outcome \in TxOutcomes, data \in WriteData,
          offset \in WriteOffsets : write("a", path, data, offset, outcome)
    \/ \E path \in NestedPaths, outcome \in TxOutcomes, length \in TruncateLengths :
          truncate("a", path, length, outcome)
    \/ \E path \in NestedPaths, size \in ReadSizes : read("a", path, size, 0)

SpecNested == InitNested /\ [][NextNested]_vars

-----------------------------------------------------------------------------
(* Directories with and without a record of their own.  The default store *)
(* holds a directory record "D", redirecting or not, and a file record    *)
(* "D/E/x"; the target store of "D" holds a record "E", file or directory, *)
(* and a file record "E/x".  Attributes are asked for "D", "D/E" and       *)
(* "D/E/x", in any order, between creations and removals.                  *)

ImplicitPaths == { <<"D">>, <<"D", "E">>, <<"D", "E", "x">> }

ImplicitDefault ==
    { Record(ENTRY_TYPE_DIRECTORY, "A", <<"D">>, <<>>, t) :
        t \in {ZeroAddress, RedirectAddress} }
    \cup { Record(ENTRY_TYPE_FILE, "A", <<"D", "E", "x">>, ABC, ZeroAddress) }

ImplicitTarget ==
    { Record(ENTRY_TYPE_DIRECTORY, "A", <<"E">>, <<>>, ZeroAddress),
      Record(ENTRY_TYPE_FILE, "A", <<"E">>, ABC, ZeroAddress),
      Record(ENTRY_TYPE_FILE, "A", <<"E", "x">>, ABC, ZeroAddress) }

InitImplicit ==
    /\ \E c \in SeqsUpTo(ImplicitDefault, MaxInit + 1),
          d \in SeqsUpTo(ImplicitTarget, MaxInit + 1) :
          store = [s \in Stores |-> IF s = DefaultAddress THEN c
                                    ELSE IF s = RedirectAddress THEN d ELSE <<>>]
    /\ signer \in {NoSigner, "A"}
    /\ entry_cache = refresh_cache(<<>>, store)
    /\ path_to_slot = [s \in Stores |-> <<>>]
    /\ slot_to_path = [s \in Stores |-> <<>>]
    /\ cm_cache = {}
    /\ last = Call("init", None, <<>>, <<>>, NoArg, "ok", None, <<>>, None, <<>>, TRUE)
    /\ nOps = 0
    /\ threads = [t \in Threads |-> Idle]

NextImplicit ==
    \/ \E account \in PathAccounts, path \in ImplicitPaths : getattr(account, path)
    \/ \E path \in ImplicitPaths, outcome \in TxOutcomes : create("a", path, outcome)
    \/ \E path \in ImplicitPaths, outcome \in TxOutcomes : mkdir("a", path, outcome)
    \/ \E path \in ImplicitPaths, outcome \in TxOutcomes : unlink("a", path, outcome)

SpecImplicit == InitImplicit /\ [][NextImplicit]_vars

-----------------------------------------------------------------------------
(* Lookups in a Snapshot Cache of two configured chains.  The default      *)
(* store of the chain the paths name holds up to two records "x" and "D"   *)
(* of either owner; the store of the other chain holds records of the same *)
(* names.  Every record has a size of its own.                             *)

OtherChainId == 1

LookupPaths == { <<"x">>, <<"D">> }

LookupRecords ==
    { Record(ENTRY_TYPE_FILE, "A", <<"x">>, ABC, ZeroAddress),
      Record(ENTRY_TYPE_FILE, "B", <<"x">>, XY, ZeroAddress),
      Record(ENTRY_TYPE_FILE, "B", <<"D">>, <<100>>, ZeroAddress) }

OtherChainRecords ==
    { Record(ENTRY_TYPE_FILE, "B", <<"x">>, Zeros(4), ZeroAddress),
      Record(ENTRY_TYPE_FILE, "A", <<"D">>, Zeros(5), ZeroAddress) }

\* the loop of _refresh_cache over the store of the other chain
RECURSIVE RefreshOther(_, _, _)
RefreshOther(recs, i, ec) ==
    IF i > Len(recs) THEN ec
    ELSE RefreshOther(recs, i + 1,
                      CachePut(ec, <<OtherChainId, Lower(recs[i].owner), recs[i].name>>,
                               RecordInfo(recs[i], i)))

InitLookup ==
    /\ store \in { [s \in Stores |-> IF s = DefaultAddress THEN c ELSE <<>>] :
                     c \in SeqsUpTo(LookupRecords, MaxInit + 1) }
    /\ signer \in {NoSigner, "A"}
    /\ \E o \in SeqsUpTo(OtherChainRecords, MaxInit) :
          entry_cache = RefreshFrom(store[DefaultAddress], 1, RefreshOther(o, 1, <<>>))
    /\ path_to_slot = [s \in Stores |-> <<>>]
    /\ slot_to_path = [s \in Stores |-> <<>>]
    /\ cm_cache = {}
    /\ last = Call("init", None, <<>>, <<>>, NoArg, "ok", None, <<>>, None, <<>>, TRUE)
    /\ nOps = 0
    /\ threads = [t \in Threads |-> Idle]

NextLookup ==
    \/ \E account \in PathAccounts, path \in LookupPaths : getattr(account, path)
    \/ \E account \in PathAccounts, path \in LookupPaths : open(account, path)
    \/ \E account \in PathAccounts, path \in LookupPaths : access(account, path)

SpecLookup == InitLookup /\ [][NextLookup]_vars

-----------------------------------------------------------------------------
(* getattr on the path string the kernel hands over, at every level of the *)
(* tree: the root, a chain directory, an owner directory and the paths     *)
(* below it.  The first segment is the configured chain id, another number *)
(* or not a number at all.                                                 *)

ChainSegments == { <<"1", "3", "3", "7">>, <<"9">>, <<"x">> }
OwnerSegments == { <<"a">>, <<"B">> }
NameSegments == { <<"x">>, <<"D">> }
MaxNames == 2

AttrSegments ==
    { <<>> }
      \cup { <<c>> : c \in ChainSegments }
      \cup { <<c, o>> : c \in ChainSegments, o \in OwnerSegments }
      \cup { <<c, o>> \o n : c \in ChainSegments, o \in OwnerSegments,
                             n \in SeqsUpTo(NameSegments, MaxNames) \ { <<>> } }

\* the string of a path made of these segments
Absolute(segs) == <<"/">> \o JoinSlash(segs)

\* an owner or a name of one character, as the rest of the model spells it
NameOf(str) == str[1]

\* a relative path "D/x" as the sequence of its names
PathOf(str) == [i \in 1..Len(Parts(str)) |-> NameOf(Parts(str)[i])]

OnChain(ec, chain_id, path) ==
    { i \in 1..Len(ec) : ec[i].key[1] = chain_id /\ ec[i].key[3] = path }

BelowOnChain(ec, chain_id, path) ==
    { i \in 1..Len(ec) : ec[i].key[1] = chain_id /\ StartsWithDir(ec[i].key[3], path) }

\* _get_entry_info for a chain id without a store handle: the exact key, then
\* any owner's entry of that chain and path, then None
EntryInfoOnChain(L, chain_id, account, path) ==
    IF CacheHas(L.ec, <<chain_id, Lower(account), path>>)
    THEN [found |-> TRUE, v |-> CacheGet(L.ec, <<chain_id, Lower(account), path>>),
          l |-> L]
    ELSE IF OnChain(L.ec, chain_id, path) # {}
    THEN [found |-> TRUE, v |-> L.ec[Min(OnChain(L.ec, chain_id, path))].info, l |-> L]
    ELSE [found |-> FALSE, v |-> NoInfo, l |-> L]

\* ... and getattr on it: a directory when a cached path of that chain lies
\* below the path, else ENOENT
AttrOnChain(chain_id, path, e) ==
    IF e.found THEN AttrOf(path, e)
    ELSE [v |-> IF BelowOnChain(e.l.ec, chain_id, path) # {}
                THEN Attr("dir", 0, ClockTime) ELSE Attr("ENOENT", 0, None),
          l |-> e.l]

\* EthFS.getattr: the root, a chain directory and an owner directory are
\* directories whatever their segments are
AttrOfParsed(L, st, p) ==
    IF p.chain_id = Nothing \/ p.account = Nothing \/ p.relative_path = Nothing
    THEN [v |-> Attr("dir", 0, ClockTime), l |-> L]
    ELSE IF p.chain_id[1] = ChainId
    THEN GetattrOut(L, st, NameOf(p.account[1]), PathOf(p.relative_path[1]))
    ELSE AttrOnChain(p.chain_id[1], PathOf(p.relative_path[1]),
                     EntryInfoOnChain(L, p.chain_id[1], NameOf(p.account[1]),
                                      PathOf(p.relative_path[1])))

\* path holds the string, data the segments it was made of, out the result
GetattrPathDone(segs, r) ==
    Observe("getattr", None, Absolute(segs), segs, NoArg,
            IF r.v.kind = "ENOENT" THEN "ENOENT" ELSE "ok", r.v, None, <<>>, r.l)

getattr_path(segs) ==
    /\ nOps < MaxOps
    /\ GetattrPathDone(segs, AttrOfParsed(Local, store, parse_path(Absolute(segs))))

NextGetattr == \E segs \in AttrSegments : getattr_path(segs)

SpecGetattr == Init /\ [][NextGetattr]_vars

-----------------------------------------------------------------------------
(* Observations used by the properties *)

MutatingOps == {"create", "mkdir", "unlink", "rmdir", "write", "truncate"}

IsPrefix(p, q) == Len(p) <= Len(q) /\ SubSeq(q, 1, Len(p)) = p

\* every transaction of the last call was committed
AllCommitted == \A i \in 1..Len(last.txs) : last.txs[i].outcome = "committed"

\* the last call was a mutating call that returned success after a commit
Mutated(op) == last.op = op /\ last.ret = "ok" /\ last.txs # <<>> /\ AllCommitted

\* what the same client would get next for the path of the last call
NextRead(size, offset) ==
    ReadOut(Local, store, last.account, last.path, size, offset).v

NextAttr == GetattrOut(Local, store, last.account, last.path).v

NextList == list_directory(Local, store, last.account, last.path).v

-----------------------------------------------------------------------------
(* C1: read-your-writes.  After every successful (committed) mutating call *)
(* on a path, the read, attributes-of or list-children that the same       *)
(* client issues next on that path reflects the mutation: written bytes    *)
(* read back, a created file or directory is reported as such, a truncated *)
(* file has the new size, a removed entry is gone.                         *)
C1_ReadYourWrites ==
    /\ (Mutated("write") /\ last.offset = 0)
          => NextRead(Len(last.data), 0) = last.data
    /\ Mutated("create") => NextAttr.kind = "file"
    /\ Mutated("mkdir") => NextAttr.kind = "dir"
    /\ Mutated("truncate") => NextAttr = Attr("file", last.offset, RecordTime)
    /\ Mutated("unlink") => NextAttr.kind # "file"
    /\ Mutated("rmdir") => NextAttr.kind = "ENOENT"

-----------------------------------------------------------------------------
(* C3: a mutating call whose transaction was mined with a failed status is *)
(* reported as an error, is not followed by a refresh, and is not treated  *)
(* as a success.                                                           *)
C3_FailedCommitIsError ==
    (\E i \in 1..Len(last.txs) : last.txs[i].outcome = "failed")
        => (last.ret = "EIO" /\ ~last.refreshed)

-----------------------------------------------------------------------------
(* C2: if the remote write of a mutating call fails (it raises, or it is   *)
(* mined with a failed status), the call returns an error, the Snapshot    *)
(* Cache is what it was before the call, and the Slot Index is what it was *)
(* up to entries that a scan found for records that exist.                 *)
WriteFailed(c) ==
    c.op \in MutatingOps /\ c.txs # <<>> /\ c.txs[Len(c.txs)].outcome # "committed"

\* no mapping is lost, and a mapping gained is one of an existing record
KeepsIndex(before, after, recs) ==
    /\ \A k \in DOMAIN before : k \in DOMAIN after
    /\ \A k \in (DOMAIN after) \ (DOMAIN before) :
          after[k] \in getEntries(recs) /\ recs[after[k]].name = k[2]

C2_FailedWriteLeavesCaches ==
    [][ (nOps' = nOps + 1 /\ WriteFailed(last'))
          => /\ last'.ret = "EIO"
             /\ entry_cache' = entry_cache
             /\ \A s \in Stores :
                  KeepsIndex(path_to_slot[s], path_to_slot'[s], store'[s]) ]_vars

-----------------------------------------------------------------------------
(* C4: every existing record of a store, of any kind and also when other   *)
(* existing records carry the same name, is resolved by its owner and name *)
(* (owner-filtered) to its own index, and fetching that index gives the    *)
(* record's fields.                                                        *)
ResolvesToItself(s, i) ==
    get_entry(Local, store, s, store[s][i].owner, store[s][i].name, FALSE)
        = [found |-> TRUE, v |-> store[s][i], slot |-> i,
           l |-> IndexPut(Local, s, store[s][i].owner, store[s][i].name, i)]

C4_ResolveEveryRecord ==
    \A s \in Stores : \A i \in getEntries(store[s]) : ResolvesToItself(s, i)

-----------------------------------------------------------------------------
(* C5: a record owned by one identity is found under any other identity    *)
(* with any_owner = TRUE, with the data of the owner's own lookup; with    *)
(* any_owner = FALSE the other identity, owning no record of that name,    *)
(* finds nothing.                                                          *)
OwnsNamed(recs, account, name) ==
    \E j \in getEntries(recs) :
        recs[j].owner = ToChecksum(account) /\ recs[j].name = name

WorldReadable(s, i, b) ==
    /\ get_entry(Local, store, s, b, store[s][i].name, TRUE).found
    /\ get_entry(Local, store, s, b, store[s][i].name, TRUE).v
         = get_entry(Local, store, s, store[s][i].owner, store[s][i].name, FALSE).v
    /\ ~OwnsNamed(store[s], b, store[s][i].name)
         => ~get_entry(Local, store, s, b, store[s][i].name, FALSE).found

C5_WorldReadable ==
    \A s \in Stores : \A i \in getEntries(store[s]) :
        \A b \in PathAccounts :
            ToChecksum(b) # store[s][i].owner => WorldReadable(s, i, b)

-----------------------------------------------------------------------------
(* C6: remove-directory on a path P that some cached path extends (a key   *)
(* of the Snapshot Cache starts with P + "/") fails with NotEmpty, sends   *)
(* no transaction and leaves the remote store and the cache unchanged.     *)
C6_RmdirNonEmpty ==
    [][ (nOps' = nOps + 1 /\ last'.op = "rmdir"
           /\ ImplicitDirectory(entry_cache, last'.path))
          => /\ last'.ret = "ENOTEMPTY"
             /\ last'.txs = <<>>
             /\ store' = store
             /\ entry_cache' = entry_cache ]_vars

-----------------------------------------------------------------------------
(* C10: list-children of a directory P returns exactly the distinct names  *)
(* that follow P + "/" in the path of some existing record: the records of *)
(* the default store, and, where a redirecting directory is a prefix of P, *)
(* the records of its target store below the remainder of P.               *)
DefaultChildren(path) == ChildNames(store[DefaultAddress], path)

RedirectsAbove(path) ==
    { i \in getEntries(store[DefaultAddress]) :
        /\ store[DefaultAddress][i].kind = ENTRY_TYPE_DIRECTORY
        /\ store[DefaultAddress][i].target # ZeroAddress
        /\ IsPrefix(store[DefaultAddress][i].name, path) }

RedirectChildren(path) ==
    UNION { ListRelative(store[store[DefaultAddress][i].target],
                [v |-> SubSeq(path, Len(store[DefaultAddress][i].name) + 1, Len(path)),
                 l |-> Local]).v : i \in RedirectsAbove(path) }

C10_ListChildren ==
    (last.op = "readdir" /\ last.ret = "ok" /\ last.path # <<>>)
        => last.out = DefaultChildren(last.path) \cup RedirectChildren(last.path)

-----------------------------------------------------------------------------
(* C7: redirect resolution.  Let D be a directory record of the default    *)
(* store with a redirect target, owned by the account of the path, the     *)
(* only record of that owner and name, and let no longer prefix of the     *)
(* path D/x (D/x itself included) be a redirecting directory of that       *)
(* owner, so that D/x resolves through D.  Then create, read, write,       *)
(* truncate and unlink of D/x go to the target store of D with the path    *)
(* relative to D, and every transaction they send is sent to that store    *)
(* under the relative path: none creates a record in the default store.    *)
FileOps == {"create", "read", "write", "truncate", "unlink"}

DefaultRecords == store[DefaultAddress]

OwnNamed(account, name) ==
    { i \in getEntries(DefaultRecords) :
        DefaultRecords[i].owner = ToChecksum(account) /\ DefaultRecords[i].name = name }

Redirecting(i) ==
    /\ DefaultRecords[i].kind = ENTRY_TYPE_DIRECTORY
    /\ DefaultRecords[i].target # ZeroAddress

ResolvesThrough(account, path, i) ==
    /\ Redirecting(i)
    /\ OwnNamed(account, DefaultRecords[i].name) = {i}
    /\ StartsWithDir(path, DefaultRecords[i].name)
    /\ \A k \in (Len(DefaultRecords[i].name) + 1)..Len(path) :
          \A j \in OwnNamed(account, SubSeq(path, 1, k)) : ~Redirecting(j)

SentTo(c, s, rel) ==
    /\ c.cm = s
    /\ c.rel = rel
    /\ \A k \in 1..Len(c.txs) : c.txs[k].to = s /\ c.txs[k].name = rel

-----------------------------------------------------------------------------
-----------------------------------------------------------------------------
(* C9: a write at an offset to a file that the owner-filtered lookup of    *)
(* the path's account finds, once committed, leaves the body equal to the  *)
(* old bytes before the offset, zero bytes up to the offset where the old  *)
(* body is shorter, the payload, and the old bytes after the payload.      *)
Max(a, b) == IF a >= b THEN a ELSE b

ExpectedBody(old, offset, payload) ==
    [ i \in 1..Max(Len(old), offset + Len(payload)) |->
        IF i > offset /\ i <= offset + Len(payload) THEN payload[i - offset]
        ELSE IF i <= Len(old) THEN old[i]
        ELSE 0 ]

WroteExisting(c) ==
    /\ c.op = "write"
    /\ c.ret = "ok"
    /\ Len(c.txs) = 1
    /\ c.txs[1].fn = "writeFile"
    /\ c.txs[1].outcome = "committed"

C9_ZeroPadWrite ==
    [][ (nOps' = nOps + 1 /\ WroteExisting(last'))
          => store'[last'.txs[1].to][last'.txs[1].slot].body
               = ExpectedBody(store[last'.txs[1].to][last'.txs[1].slot].body,
                              last'.offset, last'.data) ]_vars

\* "xy" written at offset 5 of "abc"
C9_Witness ==
    /\ WroteExisting(last)
    /\ last.offset = 5
    /\ last.data = XY
    /\ store[last.txs[1].to][last.txs[1].slot].body = <<97, 98, 99, 0, 0, 120, 121>>

-----------------------------------------------------------------------------
(* C13: with a signing identity configured, every transaction of a call    *)
(* (create file, create directory, write, delete), and the transaction of  *)
(* an update sent through the store handle, is sent from the signing       *)
(* identity and signed by it, never from the account of the path; with     *)
(* none configured, every transaction is sent unsigned from the account of *)
(* the path.                                                               *)
SentBy(tx, account) ==
    IF signer # NoSigner THEN tx.sender = signer /\ tx.signed
    ELSE tx.sender = account /\ ~tx.signed

UpdateTxs(s, account, path, outcome) ==
    update_file(Local, store, s, path, XY, account, outcome).txs

C13_SenderIsSigner ==
    /\ \A i \in 1..Len(last.txs) : SentBy(last.txs[i], last.account)
    /\ \A s \in Stores, account \in PathAccounts, path \in RelPaths,
          outcome \in TxOutcomes :
            \A i \in 1..Len(UpdateTxs(s, account, path, outcome)) :
                SentBy(UpdateTxs(s, account, path, outcome)[i], account)

\* a file created under the path of B while A signs: sent by A, owned by A
C13_Witness ==
    /\ signer = "A"
    /\ last.op = "create"
    /\ last.account = "B"
    /\ Len(last.txs) = 1
    /\ last.txs[1].sender = "A"
    /\ last.txs[1].signed
    /\ last.txs[1].outcome = "committed"
    /\ store[last.txs[1].to][Len(store[last.txs[1].to])].owner = "A"

-----------------------------------------------------------------------------
(* C14: rename and symlink fail with the not-implemented error for every   *)
(* pair of arguments and in every state, send no transaction, and leave    *)
(* the remote stores, the Slot Index and the Snapshot Cache as they were.  *)
C14_Unsupported ==
    [][ (nOps' = nOps + 1 /\ last'.op \in {"rename", "symlink"})
          => /\ last'.ret = "ENOSYS"
             /\ last'.txs = <<>>
             /\ store' = store
             /\ path_to_slot' = path_to_slot
             /\ slot_to_path' = slot_to_path
             /\ entry_cache' = entry_cache
             /\ cm_cache' = cm_cache ]_vars

\* a rename refused after a file was created: the file is still there
C14_Witness ==
    /\ last.op = "rename"
    /\ last.ret = "ENOSYS"
    /\ last.path = <<"x">>
    /\ last.data = <<"D", "x">>
    /\ nOps = 2
    /\ entry_cache # <<>>
    /\ \E i \in getEntries(store[DefaultAddress]) :
          store[DefaultAddress][i].name = <<"x">>
    /\ \A i \in getEntries(store[DefaultAddress]) :
          store[DefaultAddress][i].name # <<"D", "x">>

-----------------------------------------------------------------------------
(* C15: list-children of an owner directory /<chain>/<owner> returns       *)
(* exactly the first path segments of the cached records of that owner on  *)
(* that chain, and no name that only records of other owners carry.        *)
OwnTopLevel(ec, account) ==
    { ec[i].key[3][1] :
        i \in { j \in 1..Len(ec) : /\ ec[j].key[1] = ChainId
                                  /\ ec[j].key[2] = Lower(account)
                                  /\ ec[j].key[3] # <<>> } }

C15_OwnerListing ==
    [][ (nOps' = nOps + 1 /\ last'.op = "readdir" /\ last'.path = <<>>)
          => last'.out = OwnTopLevel(entry_cache, last'.account) ]_vars

-----------------------------------------------------------------------------
(* C16: read, open, attributes-of, remove-file and truncate on a path that *)
(* no existing record of any store is named by (neither the path nor a     *)
(* remainder of it) and that is not an implicit directory fail with        *)
(* NotFound, send no transaction and leave the remote stores unchanged.    *)
NeedsEntry == {"read", "open", "getattr", "unlink", "truncate"}

IsSuffix(name, path) ==
    /\ name # <<>>
    /\ Len(name) <= Len(path)
    /\ SubSeq(path, Len(path) - Len(name) + 1, Len(path)) = name

NoRecordFor(path) ==
    \A s \in Stores : \A i \in getEntries(store[s]) :
        ~IsSuffix(store[s][i].name, path)

C16_MissingIsNotFound ==
    [][ (/\ nOps' = nOps + 1
         /\ last'.op \in NeedsEntry
         /\ NoRecordFor(last'.path)
         /\ ~ImplicitDirectory(entry_cache, last'.path))
          => /\ last'.ret = "ENOENT"
             /\ last'.txs = <<>>
             /\ store' = store ]_vars

-----------------------------------------------------------------------------
(* C17: kind mismatch.  With no redirecting directory in the default store *)
(* and the path naming exactly one existing record, owned by the account   *)
(* of the path: remove-file on a DIRECTORY record fails with IsADirectory, *)
(* remove-directory on a FILE record fails with NotADirectory, open on a   *)
(* DIRECTORY record fails with IsADirectory; no transaction is sent and    *)
(* the record still exists afterwards.                                     *)
NoRedirects ==
    \A i \in getEntries(DefaultRecords) : ~Redirecting(i)

Named(path) == { i \in getEntries(DefaultRecords) : DefaultRecords[i].name = path }

OnlyRecord(account, path, kind) ==
    /\ NoRedirects
    /\ Cardinality(Named(path)) = 1
    /\ \A i \in Named(path) : /\ DefaultRecords[i].kind = kind
                               /\ DefaultRecords[i].owner = ToChecksum(account)

Rejected(c, errno) == c.ret = errno /\ c.txs = <<>>

C17_KindMismatch ==
    [][ (nOps' = nOps + 1)
          => /\ (last'.op \in {"unlink", "open"}
                   /\ OnlyRecord(last'.account, last'.path, ENTRY_TYPE_DIRECTORY))
                  => (Rejected(last', "EISDIR") /\ store' = store)
             /\ (last'.op = "rmdir"
                   /\ OnlyRecord(last'.account, last'.path, ENTRY_TYPE_FILE))
                  => (Rejected(last', "ENOTDIR") /\ store' = store) ]_vars

-----------------------------------------------------------------------------
(* C19: a successful truncate(P, n) of an existing file (one that the      *)
(* owner-filtered lookup of the path's account finds) with body b, once    *)
(* committed, leaves a body of length n: b[0..n) when n <= len(b), else b  *)
(* followed by n - len(b) zero bytes; attributes-of(P) right after it      *)
(* reports size n.                                                         *)
TruncatedExisting(c) ==
    /\ c.op = "truncate"
    /\ c.ret = "ok"
    /\ Len(c.txs) = 1
    /\ c.txs[1].fn = "writeFile"
    /\ c.txs[1].outcome = "committed"

C19_TruncateLength ==
    [][ (nOps' = nOps + 1 /\ TruncatedExisting(last'))
          => /\ store'[last'.txs[1].to][last'.txs[1].slot].body
                  = TruncatedData(store[last'.txs[1].to][last'.txs[1].slot].body,
                                  last'.offset)
             /\ NextAttr' = Attr("file", last'.offset, RecordTime) ]_vars

-----------------------------------------------------------------------------
(* C20: in every reachable state the two mappings of every store handle's  *)
(* Slot Index agree: (owner, path) -> index is in the forward mapping if   *)
(* and only if (owner, index) -> path is in the inverse mapping.           *)
ForwardHasInverse(p2s, s2p) ==
    \A k \in DOMAIN p2s :
        /\ <<k[1], p2s[k]>> \in DOMAIN s2p
        /\ s2p[<<k[1], p2s[k]>>] = k[2]

InverseHasForward(p2s, s2p) ==
    \A k \in DOMAIN s2p :
        /\ <<k[1], s2p[k]>> \in DOMAIN p2s
        /\ p2s[<<k[1], s2p[k]>>] = k[2]

C20_IndexConsistent ==
    \A s \in Stores :
        /\ ForwardHasInverse(path_to_slot[s], slot_to_path[s])
        /\ InverseHasForward(path_to_slot[s], slot_to_path[s])

-----------------------------------------------------------------------------
(* C18: path parsing follows /<chain-id>/<owner>/<relative path>.  Empty   *)
(* pieces are dropped; of the pieces that remain, none gives (none, none,  *)
(* none); one integer gives (chain, none, none); two give (chain, owner,   *)
(* none); three or more give (chain, owner, the rest joined by "/"); a     *)
(* first piece that is not an integer gives (none, none, none) whatever    *)
(* follows.                                                                *)
Kept(pieces) == SelectSeq(pieces, NonEmpty)

\* the integers among the pieces of the model, by value
ChainOf(piece) ==
    CASE piece = <<"1">> -> Some(1)
      [] piece = <<"1", "3">> -> Some(13)
      [] piece = <<"-", "1">> -> Some(0 - 1)
      [] OTHER -> Nothing

Grammar(kept) ==
    IF kept = <<>> THEN Parsed(Nothing, Nothing, Nothing)
    ELSE IF ChainOf(kept[1]) = Nothing THEN Parsed(Nothing, Nothing, Nothing)
    ELSE Parsed(ChainOf(kept[1]),
                IF Len(kept) >= 2 THEN Some(kept[2]) ELSE Nothing,
                IF Len(kept) >= 3 THEN Some(JoinSlash(SubSeq(kept, 3, Len(kept))))
                ELSE Nothing)

C18_PathGrammar ==
    last.op = "_parse_path" => last.out = Grammar(Kept(last.data))

\* "13//a/1a/a": a doubled slash, a relative path of two pieces
C18_Witness ==
    /\ last.op = "_parse_path"
    /\ last.path = <<"1", "3", "/", "/", "a", "/", "1", "a", "/", "a">>
    /\ last.out = Parsed(Some(13), Some(<<"a">>), Some(<<"1", "a", "/", "a">>))

-----------------------------------------------------------------------------
(* C11: a refresh is atomic to concurrent readers.  A getattr that runs on *)
(* one worker while another worker is inside _refresh_cache (after the     *)
(* clear, before the return; the write before it committed) reports what   *)
(* it would report on the complete cache of before the refresh or on the   *)
(* complete cache of after it.                                             *)
Refreshing == { t \in Threads : threads[t].pc \in {"scan", "fill"} }

AttrWith(ec, account, path) ==
    GetattrOut([Local EXCEPT !.ec = ec], store, account, path).v

C11_AtomicRefresh ==
    [][ (nOps' = nOps + 1 /\ last'.op = "getattr")
          => \A u \in Refreshing :
                (\A i \in 1..Len(threads[u].txs) :
                     threads[u].txs[i].outcome = "committed")
                => last'.out \in { AttrWith(threads[u].before, last'.account,
                                            last'.path),
                                   AttrWith(refresh_cache(<<>>, store), last'.account,
                                            last'.path) } ]_vars

-----------------------------------------------------------------------------
(* C12: mutating accesses are serialized per store.  At no time are two    *)
(* mutating callbacks against the same store in flight, from resolving to  *)
(* the end of the refresh that follows the write.                          *)
InFlight(s) == { t \in Threads : threads[t].pc # "idle" /\ threads[t].cm = s }

C12_SerializedPerStore ==
    \A s \in Stores : Cardinality(InFlight(s)) <= 1

-----------------------------------------------------------------------------
(* C21: every mutating call resolves the store, resolves or allocates the  *)
(* index, writes remotely, refreshes and returns, in that order.  When the *)
(* remote write commits, the call returns success with the Snapshot Cache  *)
(* rebuilt from the stores as they are after the write; no refresh happens *)
(* in a mutating call whose write failed (raised, or mined with a failed   *)
(* status), in one that sent no transaction, or in a read-only call.       *)
WriteCommitted(c) ==
    c.op \in MutatingOps /\ c.txs # <<>> /\ c.txs[Len(c.txs)].outcome = "committed"

C21_RefreshAfterWrite ==
    [][ (nOps' = nOps + 1)
          => /\ WriteCommitted(last')
                  => /\ last'.ret = "ok"
                     /\ last'.refreshed
                     /\ entry_cache' = refresh_cache(<<>>, store')
             /\ ~WriteCommitted(last') => ~last'.refreshed ]_vars

-----------------------------------------------------------------------------
(* C22: right after a refresh the Snapshot Cache holds exactly one entry   *)
(* for each existing, named record of every store of the store registry    *)
(* (the default store and every redirect target a handle was created for), *)
(* under (chain, lower-cased owner, the record's name), with the record's  *)
(* index, kind, size and redirect target; it holds nothing else.           *)
Registry == {DefaultAddress} \cup { s \in Stores : Lower(s) \in cm_cache }

NamedRecords ==
    { p \in Registry \X (1..(MaxInit + MaxOps)) :
        /\ p[2] \in getEntries(store[p[1]])
        /\ store[p[1]][p[2]].name # <<>> }

EntryFor(p) ==
    [key |-> Key(store[p[1]][p[2]].owner, store[p[1]][p[2]].name),
     info |-> RecordInfo(store[p[1]][p[2]], p[2])]

C22_RefreshExact ==
    last.refreshed
        => /\ \A p \in NamedRecords :
                \E i \in 1..Len(entry_cache) : entry_cache[i] = EntryFor(p)
           /\ \A i \in 1..Len(entry_cache) :
                \E p \in NamedRecords : entry_cache[i] = EntryFor(p)
           /\ Len(entry_cache) = Cardinality(NamedRecords)

-----------------------------------------------------------------------------
(* C23: a read-only call (attributes-of, list-children, read, open,        *)
(* access) leaves the Snapshot Cache exactly as it was: no entry added,    *)
(* removed or changed; in the Slot Index it loses no mapping and gains     *)
(* only mappings that a scan found for records that exist.                 *)
ReadOnlyOps == {"getattr", "readdir", "read", "open", "access"}

C23_ReadsKeepCache ==
    [][ (nOps' = nOps + 1 /\ last'.op \in ReadOnlyOps)
          => /\ entry_cache' = entry_cache
             /\ \A s \in Stores :
                  KeepsIndex(path_to_slot[s], path_to_slot'[s], store[s]) ]_vars

-----------------------------------------------------------------------------
(* C24: the nearest redirecting ancestor wins.  The governing store of a   *)
(* path is found from the default store by taking the deepest proper       *)
(* ancestor that is a redirecting directory record, continuing inside its  *)
(* target store with the path relative to it, until no ancestor redirects. *)
(* With every directory record owned by the account of the path, no two    *)
(* directory records of a store under one name, and a handle to be had for *)
(* that store, create, read, write, truncate and unlink go to that store   *)
(* under that relative path.                                               *)
RedirectsAt(s, path, k) ==
    { i \in getEntries(store[s]) :
        /\ store[s][i].kind = ENTRY_TYPE_DIRECTORY
        /\ store[s][i].target # ZeroAddress
        /\ store[s][i].name = SubSeq(path, 1, k) }

RedirectingPrefixes(s, path) ==
    { k \in 1..(Len(path) - 1) : RedirectsAt(s, path, k) # {} }

Deepest(S) == CHOOSE k \in S : \A j \in S : j <= k

RECURSIVE Governing(_, _)
Governing(s, path) ==
    IF RedirectingPrefixes(s, path) = {} THEN [cm |-> s, rel |-> path]
    ELSE Governing(
           store[s][Min(RedirectsAt(s, path, Deepest(RedirectingPrefixes(s, path))))].target,
           SubSeq(path, Deepest(RedirectingPrefixes(s, path)) + 1, Len(path)))

Directories(s) ==
    { i \in getEntries(store[s]) : store[s][i].kind = ENTRY_TYPE_DIRECTORY }

PlainTree(account) ==
    \A s \in Stores : \A i \in Directories(s) :
        /\ store[s][i].owner = ToChecksum(account)
        /\ \A j \in Directories(s) : store[s][j].name = store[s][i].name => j = i

C24_NearestRedirect ==
    (/\ last.op \in FileOps
     /\ PlainTree(last.account)
     /\ Instantiable(Governing(DefaultAddress, last.path).cm))
        => SentTo(last, Governing(DefaultAddress, last.path).cm,
                  Governing(DefaultAddress, last.path).rel)

-----------------------------------------------------------------------------
(* C25: only the proper ancestors of a path decide its store.  When no     *)
(* proper ancestor of P is a redirecting directory record of the default   *)
(* store, a call on P goes to the default store under P unmodified, also   *)
(* when P itself is a directory record that carries a redirect target.     *)
PathOps == FileOps \cup {"mkdir", "rmdir"}

C25_ProperAncestorsOnly ==
    [][ (/\ nOps' = nOps + 1
         /\ last'.op \in PathOps
         /\ RedirectingPrefixes(DefaultAddress, last'.path) = {})
          => SentTo(last', DefaultAddress, last'.path) ]_vars

-----------------------------------------------------------------------------
(* C26: no resolution entry point returns a stale index.  Whatever the     *)
(* Slot Index holds, an index returned for (owner, path) by the mapping-   *)
(* first lookup or by the scan is that of a record that exists and is      *)
(* named path, and, unless any owner is asked for, is owned by owner.      *)
Fresh(s, slot, account, path, any_owner) ==
    slot # NoSlot
        => /\ slot \in getEntries(store[s])
           /\ store[s][slot].name = path
           /\ any_owner \/ store[s][slot].owner = ToChecksum(account)

C26_NoStaleIndex ==
    \A s \in Stores, account \in PathAccounts, path \in RelPaths :
        /\ Fresh(s, get_storage_slot(Local, store, s, account, path).v,
                 account, path, FALSE)
        /\ \A any_owner \in BOOLEAN :
              Fresh(s, find_slot_by_path(Local, store, s, account, path, any_owner).v,
                    account, path, any_owner)

-----------------------------------------------------------------------------
(* C27: when a creation whose transaction committed returns, the forward   *)
(* mapping of (account, path) in the handle it used points to the index    *)
(* the store assigned to the record this creation made, whatever other     *)
(* threads or other clients created in that store in between.              *)
Returning(t) == threads[t].pc = "sent" /\ threads'[t].pc = "idle"

OwnKey(t) == <<Lower(threads[t].account), threads[t].rel>>

C27_IndexOfCreated ==
    [][ \A t \in Threads :
          (Returning(t) /\ threads[t].todo # <<>>)
            => /\ OwnKey(t) \in DOMAIN path_to_slot'[threads[t].cm]
               /\ path_to_slot'[threads[t].cm][OwnKey(t)] = threads[t].todo[1] ]_vars

-----------------------------------------------------------------------------
(* C28: the life of a forward mapping.  A call adds a mapping (owner,      *)
(* path) -> index only by a creation of that path that committed or by a   *)
(* scan that matched an existing record of that name; it removes one only  *)
(* by a deletion of that path that committed; a mapping that is there      *)
(* before and after a call has the same index.                             *)
Committed(c, fns, s, path) ==
    \E i \in 1..Len(c.txs) :
        /\ c.txs[i].fn \in fns
        /\ c.txs[i].outcome = "committed"
        /\ c.txs[i].to = s
        /\ c.txs[i].name = path

ScanMatched(recs, key, slot) ==
    slot \in getEntries(recs) /\ recs[slot].name = key[2]

C28_IndexLifecycle ==
    [][ \A s \in Stores :
          /\ \A key \in (DOMAIN path_to_slot'[s]) \ (DOMAIN path_to_slot[s]) :
                \/ Committed(last', {"createFile", "createDirectory"}, s, key[2])
                \/ ScanMatched(store'[s], key, path_to_slot'[s][key])
          /\ \A key \in (DOMAIN path_to_slot[s]) \ (DOMAIN path_to_slot'[s]) :
                Committed(last', {"deleteEntry"}, s, key[2])
          /\ \A key \in (DOMAIN path_to_slot[s]) \cap (DOMAIN path_to_slot'[s]) :
                path_to_slot'[s][key] = path_to_slot[s][key] ]_vars

-----------------------------------------------------------------------------
(* C29: the registry of store handles.  In every call: no handle is kept   *)
(* for the default store address, however a record spells it; a handle     *)
(* that is there stays, and its Slot Index loses a mapping only to a       *)
(* deletion by this call (it is the same handle afterwards); a handle is   *)
(* added only for the redirect target that the path of the call resolved   *)
(* to, under the lower-cased address; and a call that resolves to a target *)
(* no handle can be made for uses the default handle, with the path        *)
(* relative to the redirecting directory, and makes no handle.             *)
Discovered(k, path) ==
    \E i \in getEntries(DefaultRecords) :
        /\ Redirecting(i)
        /\ Lower(DefaultRecords[i].target) = k
        /\ IsPrefix(DefaultRecords[i].name, path)

KeepsHandle(s, c) ==
    \A key \in (DOMAIN path_to_slot[s]) \ (DOMAIN path_to_slot'[s]) :
        c.op = "unlink" /\ c.cm = s /\ c.rel = key[2]

C29_HandleRegistry ==
    [][ (nOps' = nOps + 1)
          => /\ Lower(ConfiguredAddress) \notin cm_cache'
             /\ cm_cache \subseteq cm_cache'
             /\ \A s \in Stores : Lower(s) \in cm_cache => KeepsHandle(s, last')
             /\ \A k \in cm_cache' \ cm_cache :
                  Lower(last'.cm) = k /\ Discovered(k, last'.path)
             /\ (/\ PlainTree(last'.account)
                 /\ Governing(DefaultAddress, last'.path).cm = BrokenAddress)
                  => /\ SentTo(last', DefaultAddress,
                               Governing(DefaultAddress, last'.path).rel)
                     /\ cm_cache' = cm_cache ]_vars

\* the second call through "D" finds the handle of the first and the
\* mapping the first left in it
C29_Witness ==
    /\ nOps = 2
    /\ cm_cache = {Lower(RedirectAddress)}
    /\ last.op = "read"
    /\ last.path = <<"D", "x">>
    /\ last.cm = RedirectAddress
    /\ last.out = XY
    /\ <<"a", <<"x">>>> \in DOMAIN path_to_slot[RedirectAddress]

-----------------------------------------------------------------------------
(* C30: implicit directories.  attributes-of(P) reports a directory when   *)
(* no record named P exists but at least one cached path is prefixed by    *)
(* P + "/"; a cached path that is not below P does not make P a directory; *)
(* when an explicit record for P also exists, the kind and the timestamp   *)
(* of an explicit record are the ones reported.                            *)
(* Stated for the paths of an account that owns every directory record,   *)
(* each under a name of its own.                                           *)

\* the live records of store s named rel, whoever owns them
NamedIn(s, rel) ==
    { i \in getEntries(store[s]) : store[s][i].exists /\ store[s][i].name = rel }

\* the explicit records of P: those the default store names P, and those
\* the store that governs P names by the rest of P
ExplicitIn(path) ==
    { <<DefaultAddress, i>> : i \in NamedIn(DefaultAddress, path) }
    \cup { <<Governing(DefaultAddress, path).cm, i>> :
             i \in NamedIn(Governing(DefaultAddress, path).cm,
                           Governing(DefaultAddress, path).rel) }

KindOf(rec) == IF rec.kind = ENTRY_TYPE_DIRECTORY THEN "dir" ELSE "file"

C30_ImplicitDirectory ==
    (last.op = "getattr" /\ PlainTree(last.account))
      => /\ (ExplicitIn(last.path) = {} /\ ImplicitDirectory(entry_cache, last.path))
              => last.out = Attr("dir", 0, ClockTime)
         /\ (ExplicitIn(last.path) = {} /\ ~ImplicitDirectory(entry_cache, last.path))
              => last.out.kind = "ENOENT"
         /\ ExplicitIn(last.path) # {}
              => \E p \in ExplicitIn(last.path) :
                    /\ last.out.kind = KindOf(store[p[1]][p[2]])
                    /\ last.out.mtime = RecordTime

-----------------------------------------------------------------------------
(* C31: the Snapshot Cache lookup.  The attributes reported for            *)
(* (chain, owner, path) are those of the entry cached under the exact      *)
(* (chain, lower-cased owner, path) key when there is one, whatever other  *)
(* owners have cached under that path; without that key they are those of  *)
(* an entry of the same chain and path cached under another owner; an      *)
(* entry of another chain or of another path is never reported.            *)

SamePath(path) ==
    { i \in 1..Len(entry_cache) :
        entry_cache[i].key[1] = ChainId /\ entry_cache[i].key[3] = path }

ExactKey(account, path) ==
    { i \in SamePath(path) : entry_cache[i].key[2] = Lower(account) }

InfoAttr(info) ==
    IF info.type = ENTRY_TYPE_DIRECTORY THEN Attr("dir", 0, info.timestamp)
    ELSE Attr("file", info.size, info.timestamp)

C31_CacheLookup ==
    last.op = "getattr"
      => /\ \A i \in ExactKey(last.account, last.path) :
                last.out = InfoAttr(entry_cache[i].info)
         /\ (ExactKey(last.account, last.path) = {} /\ SamePath(last.path) # {})
              => \E i \in SamePath(last.path) : last.out = InfoAttr(entry_cache[i].info)
         /\ SamePath(last.path) = {} => last.out.mtime # RecordTime

C31_Witness ==
    /\ last.op = "getattr" /\ last.account = "B" /\ last.path = <<"x">>
    /\ last.out = Attr("file", 2, RecordTime)
    /\ \E i, j, k \in 1..Len(entry_cache) :
          /\ i < j
          /\ entry_cache[i].key = <<ChainId, "a", <<"x">>>>
          /\ entry_cache[j].key = <<ChainId, "b", <<"x">>>>
          /\ entry_cache[k].key = <<OtherChainId, "b", <<"x">>>>

-----------------------------------------------------------------------------
(* C32: a write at an offset greater than zero on a path that has no       *)
(* record creates the file with the data at that offset, after that many   *)
(* zero bytes: the body a write at that offset to an empty file gives.     *)

WroteMissing(c) ==
    /\ c.op = "write"
    /\ Len(c.txs) = 1
    /\ c.txs[1].fn = "createFile"
    /\ c.txs[1].outcome = "committed"

C32_OffsetKept ==
    [][ (/\ nOps' = nOps + 1
         /\ WroteMissing(last')
         /\ NamedIn(last'.txs[1].to, last'.txs[1].name) = {})
          => /\ Len(store'[last'.txs[1].to]) = Len(store[last'.txs[1].to]) + 1
             /\ store'[last'.txs[1].to][Len(store'[last'.txs[1].to])].body
                  = ExpectedBody(<<>>, last'.offset, last'.data) ]_vars

-----------------------------------------------------------------------------
(* C33: no automatic retry.  Every facade call submits at most one remote  *)
(* write transaction, whether it succeeds or fails, and a call that is not *)
(* mutating submits none; what the call changes in the stores is what that *)
(* one transaction does: at most one record of one store, and nothing when *)
(* the transaction did not commit.                                         *)

OneRecordChanged(old, new) ==
    \/ Len(new) = Len(old) + 1 /\ SubSeq(new, 1, Len(old)) = old
    \/ /\ Len(new) = Len(old)
       /\ Cardinality({ i \in 1..Len(old) : new[i] # old[i] }) <= 1

C33_NoRetry ==
    [][ (nOps' = nOps + 1)
          => /\ Len(last'.txs) <= 1
             /\ last'.op \notin MutatingOps => last'.txs = <<>>
             /\ last'.txs = <<>> => store' = store
             /\ Len(last'.txs) = 1
                  => /\ last'.txs[1].outcome # "committed" => store' = store
                     /\ \A s \in Stores \ {last'.txs[1].to} : store'[s] = store[s]
                     /\ OneRecordChanged(store[last'.txs[1].to],
                                         store'[last'.txs[1].to]) ]_vars

\* a truncate whose one submission raised
C33_Witness ==
    /\ last.op = "truncate"
    /\ last.ret = "EIO"
    /\ Len(last.txs) = 1
    /\ last.txs[1].outcome = "raised"
    /\ last.txs[1].fn = "writeFile"

-----------------------------------------------------------------------------
(* C34: the store handle that receives a call and the path sent to it come *)
(* from one resolution.  The path is rewritten relative to a redirecting   *)
(* directory only when the call goes to the redirect-target store of that  *)
(* directory; a call that goes to the default store for any other reason,  *)
(* the fallback for a handle that cannot be made included, carries the     *)
(* original path.                                                          *)

\* the call went to store s under the path that is left of its path after
\* its first k components
RewrittenAt(c, k) ==
    /\ k < Len(c.path) \/ c.rel = <<>>
    /\ c.rel = SubSeq(c.path, k + 1, Len(c.path))
    /\ \E i \in getEntries(DefaultRecords) :
          /\ DefaultRecords[i].kind = ENTRY_TYPE_DIRECTORY
          /\ DefaultRecords[i].name = SubSeq(c.path, 1, k)
          /\ DefaultRecords[i].target # ZeroAddress
          /\ SameAddress(DefaultRecords[i].target, c.cm)

C34_OneResolution ==
    (last.op \in PathOps /\ last.cm # None)
      => /\ \A k \in 1..Len(last.txs) :
               last.txs[k].to = last.cm /\ last.txs[k].name = last.rel
         /\ last.rel # last.path => \E k \in 1..Len(last.path) : RewrittenAt(last, k)
         /\ last.rel = last.path => last.cm = DefaultAddress

-----------------------------------------------------------------------------
(* C35: remove-directory of an existing directory record with no children  *)
(* sends the remote delete for the index of that record to the store that  *)
(* holds the record, and when it commits the record exists no longer; also *)
(* when the directory itself carries a redirect target (its record is in   *)
(* the default store, not in the target store).  Stated for the one        *)
(* directory record of a path of its owner, no ancestor of which redirects.*)

\* record i of the default store is the directory of path, without children
EmptyDirectory(account, path, i) ==
    /\ i \in getEntries(DefaultRecords)
    /\ DefaultRecords[i].kind = ENTRY_TYPE_DIRECTORY
    /\ DefaultRecords[i].owner = ToChecksum(account)
    /\ NamedIn(DefaultAddress, path) = {i}
    /\ RedirectingPrefixes(DefaultAddress, path) = {}
    /\ ChildNames(DefaultRecords, path) = {}
    /\ DefaultRecords[i].target # ZeroAddress
         => getEntries(store[DefaultRecords[i].target]) = {}

C35_RemoveDirectory ==
    [][ (nOps' = nOps + 1 /\ last'.op = "rmdir")
          => \A i \in 1..Len(DefaultRecords) :
                EmptyDirectory(last'.account, last'.path, i)
                  => /\ Len(last'.txs) = 1
                     /\ last'.txs[1].fn = "deleteEntry"
                     /\ last'.txs[1].to = DefaultAddress
                     /\ last'.txs[1].slot = i
                     /\ last'.txs[1].outcome = "committed"
                          => /\ last'.ret = "ok"
                             /\ ~store'[DefaultAddress][i].exists ]_vars

-----------------------------------------------------------------------------
(* C36: when a deletion has succeeded on a store, the Slot Index of that   *)
(* store's handle has no entry left that refers to the deleted index:      *)
(* no forward mapping has it as its value and no inverse mapping has it in *)
(* its key, under the key of any owner, the keys that any-owner lookups of *)
(* other identities added included.                                        *)

\* the call c deleted an index: its one transaction is a remote delete that
\* committed, and the call succeeded
DeletedIndex(c) ==
    /\ c.op \in {"unlink", "rmdir"}
    /\ c.ret = "ok"
    /\ Len(c.txs) = 1
    /\ c.txs[1].fn = "deleteEntry"
    /\ c.txs[1].outcome = "committed"

\* the owner keys under which the Slot Index of s refers to the index slot
RefersTo(p2s, s2p, s, slot) ==
    { key[1] : key \in { k \in DOMAIN p2s[s] : p2s[s][k] = slot } }
        \cup { key[1] : key \in { k \in DOMAIN s2p[s] : k[2] = slot } }

C36_DeletedIndexForgotten ==
    [][ (nOps' = nOps + 1 /\ DeletedIndex(last'))
          => RefersTo(path_to_slot', slot_to_path',
                      last'.txs[1].to, last'.txs[1].slot) = {} ]_vars

-----------------------------------------------------------------------------
(* C37: names stay unique.  The calls of one client, started on stores in  *)
(* which no two existing records have the same name, never lead to a store *)
(* with two existing records of one name: a creation (by create, or by a   *)
(* write or truncate that found no record) on a path that has an existing  *)
(* record adds no second record of that path.                              *)

\* the existing records of s named path
Existing(s, path) ==
    { i \in 1..Len(store[s]) : store[s][i].exists /\ store[s][i].name = path }

C37_UniqueNames ==
    \A s \in Stores :
        \A i \in 1..Len(store[s]) :
            store[s][i].exists => Existing(s, store[s][i].name) = {i}

-----------------------------------------------------------------------------
(* C38: a listing does not depend on the identity in the path.  Two        *)
(* list-children calls in a row, on the same path below the owner level    *)
(* and on the same stores, return the same names whatever the two owner    *)
(* addresses in their paths are; also when the path is a directory with a  *)
(* redirect target that only one of the two owns.                          *)
ListedTwice ==
    /\ nOps' = nOps + 1
    /\ last.op = "readdir"
    /\ last'.op = "readdir"
    /\ last'.path = last.path
    /\ last.path # <<>>

C38_ListingIgnoresIdentity ==
    [][ ListedTwice => last'.out = last.out ]_vars

-----------------------------------------------------------------------------
(* C39: attributes-of on a path whose first segment is not a configured    *)
(* chain id, be it not a number or a number no store is configured for,    *)
(* fails with ENOENT and reports no directory; and so does attributes-of   *)
(* on an owner directory whose owner owns no cached record.                *)
ConfiguredChain(seg) == IntOf(seg) = Some(ChainId)

OwnsCached(owner) ==
    \E i \in 1..Len(entry_cache) :
        entry_cache[i].key[1] = ChainId /\ entry_cache[i].key[2] = Lower(owner)

C39_UnknownIsNotFound ==
    (last.op = "getattr" /\ Len(last.data) >= 1)
      => /\ ~ConfiguredChain(last.data[1]) => last.ret = "ENOENT"
         /\ (/\ ConfiguredChain(last.data[1])
             /\ Len(last.data) = 2
             /\ ~OwnsCached(NameOf(last.data[2])))
              => last.ret = "ENOENT"

=============================================================================
